---- MODULE Spec2Model ----
(***************************************************************************)
(* Model of the laser-cut box generator (src/Main_Box).                    *)
(*                                                                         *)
(* Lengths are integers in units of 1e-4 mm (UNIT_PER_MM units to the mm), *)
(* the resolution of the "%.4f" formatting the generator writes paths      *)
(* with.  User inputs in inches are integers in hundredths of an inch.     *)
(* The packer is a pure function of its arguments and is also explored on  *)
(* small abstract panel lists.                                             *)
(***************************************************************************)
EXTENDS Integers, Sequences, FiniteSets, TLC

VARIABLES pack, mn, frac, font, bld, val, krf

vars == <<pack, mn, frac, font, bld, val, krf>>

\* the value Python's None is modelled by
None == "None"

Max(a, b) == IF a >= b THEN a ELSE b
Min(a, b) == IF a <= b THEN a ELSE b

(***************************************************************************)
(* constants.py                                                            *)
(***************************************************************************)

\* model units per millimetre: the four decimals of the "%.4f" path format
UNIT_PER_MM == 10000

\* model units per inch (25.4 mm)
INCH_TO_MM == 254000

T_MM == 30000
KERF_MM_DEFAULT == 1000

SHEET_W_MM == 12 * INCH_TO_MM
SHEET_H_MM == 18 * INCH_TO_MM

PART_GAP_MM == 20000

MIN_EDGE_MARGIN_MM == Max(2 * T_MM, 60000)
ENGRAVE_MARGIN_MM == Max(2 * T_MM, 60000)
DIVIDER_MIN_GAP_MM == Max(2 * T_MM, 60000)

DIVIDER_SLOT_CLEARANCE_MM == 800
NUT_POCKET_CLEARANCE_MM == 500
SCREW_HOLE_DIAMETER_MM == 25000
TAB_SLOT_CLEARANCE_MM == 1000
TAB_WIDTH_MM == 120000

\* the nut width in thousandths of an inch
NUT_WIDTH_IN == 188
NUT_WIDTH_MM == (NUT_WIDTH_IN * INCH_TO_MM) \div 1000

DIVIDER_SLOT_TOP_CAP_MM == MIN_EDGE_MARGIN_MM
DIVIDER_SLOT_BOTTOM_MARGIN_MM == MIN_EDGE_MARGIN_MM

TEXT_FONT_SIZE_MM == 60000
TEXT_ANCHOR == "middle"
TEXT_FONT_FAMILY == "Arial"

\* a mutation of internal_cut_draw_dim: half the kerf is taken off
InternalCutHalfKerf(target_physical_mm, kerf_mm) == target_physical_mm - kerf_mm \div 2

internal_cut_draw_dim(target_physical_mm, kerf_mm) == target_physical_mm - kerf_mm

\* a mutation of external_cut_draw_dim: the kerf is added twice
ExternalCutDoubleKerf(target_physical_mm, kerf_mm) == target_physical_mm + 2 * kerf_mm

external_cut_draw_dim(target_physical_mm, kerf_mm) == target_physical_mm + kerf_mm

divider_slot_target_physical(kerf_mm) == T_MM + DIVIDER_SLOT_CLEARANCE_MM

divider_slot_draw_w(kerf_mm) ==
    internal_cut_draw_dim(divider_slot_target_physical(kerf_mm), kerf_mm)

nut_pocket_target_physical == NUT_WIDTH_MM + NUT_POCKET_CLEARANCE_MM

nut_pocket_draw_w(kerf_mm) == internal_cut_draw_dim(nut_pocket_target_physical, kerf_mm)

screw_hole_draw_d(kerf_mm) == internal_cut_draw_dim(SCREW_HOLE_DIAMETER_MM, kerf_mm)

tab_slot_target_physical == T_MM + TAB_SLOT_CLEARANCE_MM

tab_slot_draw_w(kerf_mm) == internal_cut_draw_dim(tab_slot_target_physical, kerf_mm)

wall_bottom_slot_draw_depth(kerf_mm) == internal_cut_draw_dim(T_MM, kerf_mm)

floor_tab_len_draw(kerf_mm) == external_cut_draw_dim(T_MM, kerf_mm)

\* The three finger-joint helpers and the stem length are used by generate.py
\* (C.finger_feature_w_draw, C.finger_tab_depth_draw, C.finger_pocket_depth_draw,
\* C.T_SLOT_STEM_LENGTH_MM) and are not defined in constants.py; they follow
\* the design document: feature width and tab depth are external (tab)
\* dimensions, pocket depth the internal equivalent of the thickness.
finger_feature_w_draw(kerf_mm) == external_cut_draw_dim(TAB_WIDTH_MM, kerf_mm)

finger_tab_depth_draw(kerf_mm) == external_cut_draw_dim(T_MM, kerf_mm)

finger_pocket_depth_draw(kerf_mm) == internal_cut_draw_dim(T_MM, kerf_mm)

T_SLOT_STEM_LENGTH_MM == 60000

(***************************************************************************)
(* fractal_sierpinski.py                                                   *)
(*                                                                         *)
(* The triangle arithmetic is carried out in sub-units, Scale(depth) to    *)
(* the unit, so that the repeated halving of rec keeps its precision below *)
(* the four printed decimals; triangle_to_path rounds to the unit as       *)
(* "%.4f" does.  sqrt(3) is the rational SQRT3_NUM / SQRT3_DEN.            *)
(***************************************************************************)

SQRT3_NUM == 1732
SQRT3_DEN == 1000

\* floor(a * n / d) without forming a * n
MulDiv(a, n, d) == (a \div d) * n + ((a % d) * n) \div d

Scale(depth) == 2 ^ Max(depth, 0)

Rect(x, y, w, h) == [x |-> x, y |-> y, w |-> w, h |-> h]

\* Rect.inset
inset_rect(r, m) ==
    Rect(r.x + m, r.y + m, Max(0, r.w - 2 * m), Max(0, r.h - 2 * m))

rects_intersect(a, b) ==
    ~ (\/ a.x + a.w <= b.x
       \/ b.x + b.w <= a.x
       \/ a.y + a.h <= b.y
       \/ b.y + b.h <= a.y)

mid(p, q) == << (p[1] + q[1]) \div 2, (p[2] + q[2]) \div 2 >>

Min3(a, b, c) == Min(a, Min(b, c))
Max3(a, b, c) == Max(a, Max(b, c))

triangle_bbox(a, b, c) ==
    LET x0 == Min3(a[1], b[1], c[1])
        x1 == Max3(a[1], b[1], c[1])
        y0 == Min3(a[2], b[2], c[2])
        y1 == Max3(a[2], b[2], c[2])
    IN  Rect(x0, y0, x1 - x0, y1 - y0)

\* "%.4f": a sub-unit coordinate printed at the unit, rounded half up
Fmt4(v, scale) == (2 * v + scale) \div (2 * scale)

triangle_to_path(a, b, c, scale) ==
    << [c |-> "M", x |-> Fmt4(a[1], scale), y |-> Fmt4(a[2], scale)],
       [c |-> "L", x |-> Fmt4(b[1], scale), y |-> Fmt4(b[2], scale)],
       [c |-> "L", x |-> Fmt4(c[1], scale), y |-> Fmt4(c[2], scale)],
       [c |-> "Z"] >>

\* the rectangle is in sub-units
equilateral_triangle_in_rect(rect) ==
    IF rect.w <= 0 \/ rect.h <= 0
    THEN LET p == <<rect.x, rect.y>> IN <<p, p, p>>
    ELSE LET side_by_width == rect.w
             side_by_height == MulDiv(2 * rect.h, SQRT3_DEN, SQRT3_NUM)
             side == Min(side_by_width, side_by_height)
             tri_h == MulDiv(side, SQRT3_NUM, SQRT3_DEN) \div 2
             cx == rect.x + rect.w \div 2
             cy == rect.y + rect.h \div 2
             left == cx - side \div 2
             right == cx + side \div 2
             top == cy - tri_h \div 2
             bottom == cy + tri_h \div 2
         IN  << <<cx, top>>, <<left, bottom>>, <<right, bottom>> >>

\* a mutation of rec: the central triangle is kept too
RECURSIVE recKeepCentre(_, _, _, _)
recKeepCentre(a, b, c, d) ==
    IF d <= 0 THEN << <<a, b, c>> >>
    ELSE LET ab == mid(a, b)
             ac == mid(a, c)
             bc == mid(b, c)
         IN  recKeepCentre(a, ab, ac, d - 1) \o recKeepCentre(ab, b, bc, d - 1)
             \o recKeepCentre(ac, bc, c, d - 1) \o recKeepCentre(ab, bc, ac, d - 1)

RECURSIVE rec(_, _, _, _)
rec(a, b, c, d) ==
    IF d <= 0 THEN << <<a, b, c>> >>
    ELSE LET ab == mid(a, b)
             ac == mid(a, c)
             bc == mid(b, c)
         IN  rec(a, ab, ac, d - 1) \o rec(ab, b, bc, d - 1) \o rec(ac, bc, c, d - 1)

\* rect and inset in units; the leaves are in sub-units, Scale(depth) to the unit
sierpinski_leaf_triangles(rect, depth, inset) ==
    LET sc == Scale(depth)
        r == inset_rect(Rect(rect.x * sc, rect.y * sc, rect.w * sc, rect.h * sc), inset * sc)
        ABC == equilateral_triangle_in_rect(r)
    IN  rec(ABC[1], ABC[2], ABC[3], depth)

\* a keepout rectangle in sub-units
ScaleRect(k, sc) == Rect(k.x * sc, k.y * sc, k.w * sc, k.h * sc)

\* any(rects_intersect(bb, k) for k in keepouts)
HitsKeepout(tri, keepouts, sc) ==
    \E i \in 1..Len(keepouts) :
        rects_intersect(triangle_bbox(tri[1], tri[2], tri[3]), ScaleRect(keepouts[i], sc))

\* one iteration of the filter loop: the leaf is dropped or its path appended
FilterStep(out, tri, keepouts, sc) ==
    IF HitsKeepout(tri, keepouts, sc) THEN out
    ELSE Append(out, triangle_to_path(tri[1], tri[2], tri[3], sc))

\* the loop over leaf[lo..hi]: the paths it appends, in order.  The range is
\* split in halves, which yields what the left-to-right loop yields
RECURSIVE FilterLoop(_, _, _, _, _)
FilterLoop(leaf, lo, hi, keepouts, sc) ==
    IF lo > hi THEN <<>>
    ELSE IF lo = hi THEN FilterStep(<<>>, leaf[lo], keepouts, sc)
    ELSE LET half == (lo + hi) \div 2
         IN  FilterLoop(leaf, lo, half, keepouts, sc) \o FilterLoop(leaf, half + 1, hi, keepouts, sc)

sierpinski_paths_clipped_by_keepouts(rect, depth, inset, keepouts) ==
    LET leaf == sierpinski_leaf_triangles(rect, depth, inset)
    IN  FilterLoop(leaf, 1, Len(leaf), keepouts, Scale(depth))

(***************************************************************************)
(* Auto font size: _calculate_auto_font_size                               *)
(*                                                                         *)
(* The text enters only through len(text_content); the ratios 0.55 and 1.2 *)
(* are kept as hundredths and the comparisons cross-multiplied.            *)
(***************************************************************************)

\* char_width_ratio = 0.55 and height_ratio = 1.2, in hundredths
CHAR_WIDTH_RATIO_PCT == 55
HEIGHT_RATIO_PCT == 120
\* step = 0.5 mm
FONT_STEP == 5000
\* the default arguments max_font_size = 10.0 and min_font_size = 3.0
MAX_FONT_SIZE_DEFAULT == 100000
MIN_FONT_SIZE_DEFAULT == 30000

\* text_width <= box_width and text_height <= box_height
TextFits(text_len, font_size, box_width, box_height) ==
    /\ text_len * font_size * CHAR_WIDTH_RATIO_PCT <= box_width * 100
    /\ font_size * HEIGHT_RATIO_PCT <= box_height * 100

\* a mutation of FontStep: the size goes down by two steps at a time
FontStepDoubleStep(text_len, font_size, box_width, box_height, min_font_size) ==
    IF font_size < min_font_size THEN [done |-> TRUE, font_size |-> min_font_size]
    ELSE IF TextFits(text_len, font_size, box_width, box_height)
         THEN [done |-> TRUE, font_size |-> font_size]
         ELSE [done |-> FALSE, font_size |-> font_size - 2 * FONT_STEP]

\* a mutation of FontStep: the minimum is returned as soon as one size does
\* not fit (the final return moved into the loop)
FontStepFloorInLoop(text_len, font_size, box_width, box_height, min_font_size) ==
    IF font_size < min_font_size THEN [done |-> TRUE, font_size |-> min_font_size]
    ELSE IF TextFits(text_len, font_size, box_width, box_height)
         THEN [done |-> TRUE, font_size |-> font_size]
         ELSE [done |-> TRUE, font_size |-> min_font_size]

\* one evaluation of the while condition and, when it holds, of the loop
\* body: when done, font_size is the value returned
FontStep(text_len, font_size, box_width, box_height, min_font_size) ==
    IF font_size < min_font_size THEN [done |-> TRUE, font_size |-> min_font_size]
    ELSE IF TextFits(text_len, font_size, box_width, box_height)
         THEN [done |-> TRUE, font_size |-> font_size]
         ELSE [done |-> FALSE, font_size |-> font_size - FONT_STEP]

\* the while loop from the current font_size
RECURSIVE FontSearch(_, _, _, _, _)
FontSearch(text_len, font_size, box_width, box_height, min_font_size) ==
    LET step == FontStep(text_len, font_size, box_width, box_height, min_font_size)
    IN  IF step.done THEN step.font_size
        ELSE FontSearch(text_len, step.font_size, box_width, box_height, min_font_size)

calculate_auto_font_size(text_len, box_width, box_height, max_font_size, min_font_size) ==
    IF text_len = 0 THEN max_font_size
    ELSE FontSearch(text_len, max_font_size, box_width, box_height, min_font_size)

(***************************************************************************)
(* generate.py: SVG primitives and pieces                                  *)
(*                                                                         *)
(* A piece is the code's dict: name, w, h, base_w, base_h, outline, cuts,  *)
(* engraves.  A path's d string is the sequence of its commands.  Every    *)
(* cut also carries `feature`, the helper that appended it; the code's     *)
(* dicts have no such field, it only lets properties name the cuts.        *)
(***************************************************************************)

svg_rect(x, y, w, h, feature) ==
    [type |-> "rect", x |-> x, y |-> y, w |-> w, h |-> h, stroke |-> "red", feature |-> feature]

svg_circle(cx, cy, r, feature) ==
    [type |-> "circle", cx |-> cx, cy |-> cy, r |-> r, stroke |-> "red", feature |-> feature]

\* a mutation of svg_text: the rotation is dropped
SvgTextUnrotated(x, y, text, font_size, rotation) ==
    [type |-> "text", x |-> x, y |-> y, text |-> text, font |-> TEXT_FONT_FAMILY,
     size |-> font_size, anchor |-> TEXT_ANCHOR, rotation |-> 0, stroke |-> "black"]

svg_text(x, y, text, font_size, rotation) ==
    [type |-> "text", x |-> x, y |-> y, text |-> text, font |-> TEXT_FONT_FAMILY,
     size |-> font_size, anchor |-> TEXT_ANCHOR, rotation |-> rotation, stroke |-> "black"]

svg_path(d, stroke) == [type |-> "path", d |-> d, stroke |-> stroke]

\* one "M x y" or "L x y" command of a path
Cmd(c, x, y) == [c |-> c, x |-> x, y |-> y]
\* the closing "Z"
CmdZ == [c |-> "Z"]

new_piece(name, w, h) ==
    [name |-> name, w |-> w, h |-> h, base_w |-> w, base_h |-> h,
     outline |-> [type |-> "rect", x |-> 0, y |-> 0, w |-> w, h |-> h, stroke |-> "red"],
     cuts |-> <<>>, engraves |-> <<>>]

new_wall_piece(name, base_w, base_h, kerf) ==
    LET tab_d == finger_tab_depth_draw(kerf)
    IN  [name |-> name, w |-> base_w + tab_d, h |-> base_h + tab_d,
         base_w |-> base_w, base_h |-> base_h,
         outline |-> [type |-> "rect"], cuts |-> <<>>, engraves |-> <<>>]

new_floor_piece(name, base_w, base_h) ==
    [name |-> name, w |-> base_w, h |-> base_h, base_w |-> base_w, base_h |-> base_h,
     outline |-> [type |-> "rect"], cuts |-> <<>>, engraves |-> <<>>]

\* the index of the first piece called `name`; every name looked up is present
PieceIndex(pieces, name) ==
    CHOOSE k \in 1..Len(pieces) :
        pieces[k].name = name /\ \A j \in 1..(k - 1) : pieces[j].name # name

\* _find_piece
find_piece(pieces, name) == pieces[PieceIndex(pieces, name)]

WallNames == <<"wall_front", "wall_back", "wall_left", "wall_right">>
IsWallName(name) == \E k \in 1..Len(WallNames) : WallNames[k] = name
\* name.startswith("divider_")
IsDividerName(name) == name \in {"divider_1", "divider_2"}
DividerName(i) == IF i = 1 THEN "divider_1" ELSE "divider_2"

\* p["outline"] = ... on the piece _find_piece returns
SetOutline(pieces, name, outline) ==
    [pieces EXCEPT ![PieceIndex(pieces, name)].outline = outline]

\* piece["cuts"].append(cut)
AppendCut(pieces, name, cut) ==
    [pieces EXCEPT ![PieceIndex(pieces, name)].cuts = Append(@, cut)]

\* a mutation of AppendEngraves: the panel grows by a margin around its
\* engraves
AppendEngravesGrowing(pieces, name, es) ==
    [pieces EXCEPT ![PieceIndex(pieces, name)].engraves = @ \o es,
                   ![PieceIndex(pieces, name)].h = @ + Len(es) * ENGRAVE_MARGIN_MM]

\* piece["engraves"].append(e) for each e of es in order
AppendEngraves(pieces, name, es) ==
    [pieces EXCEPT ![PieceIndex(pieces, name)].engraves = @ \o es]

\* a sequence of appends, ops[i] = <<piece name, cut>>, applied in order
RECURSIVE ApplyCuts(_, _)
ApplyCuts(pieces, ops) ==
    IF ops = <<>> THEN pieces
    ELSE ApplyCuts(AppendCut(pieces, Head(ops)[1], Head(ops)[2]), Tail(ops))

(***************************************************************************)
(* Finger joints                                                           *)
(***************************************************************************)

\* a mutation of corner_centers: the centres lie half a feature further in
CornerCentersFurtherIn(edge_len, feature_w, margin) ==
    << margin + feature_w, edge_len - (margin + feature_w) >>

corner_centers(edge_len, feature_w, margin) ==
    << margin + feature_w \div 2, edge_len - (margin + feature_w \div 2) >>

wall_outline(base_w, base_h, kerf) ==
    LET m == MIN_EDGE_MARGIN_MM
        fw == finger_feature_w_draw(kerf)
        tab_d == finger_tab_depth_draw(kerf)
        pocket_d == finger_pocket_depth_draw(kerf)
        ys == corner_centers(base_h, fw, m)
        y1 == ys[1]
        y2 == ys[2]
        a1 == y1 - fw \div 2
        b1 == y1 + fw \div 2
        a2 == y2 - fw \div 2
        b2 == y2 + fw \div 2
        xs == corner_centers(base_w, fw, m)
        x1 == xs[1]
        x2 == xs[2]
        c1 == x1 - fw \div 2
        d1 == x1 + fw \div 2
        c2 == x2 - fw \div 2
        d2 == x2 + fw \div 2
        x0 == 0
        xB == base_w
        y0 == 0
        yB == base_h
    IN  [type |-> "path", stroke |-> "red", d |->
          << Cmd("M", x0, y0), Cmd("L", xB, y0),
             \* right edge with 2 outward tabs
             Cmd("L", xB, a2), Cmd("L", xB + tab_d, a2), Cmd("L", xB + tab_d, b2), Cmd("L", xB, b2),
             Cmd("L", xB, a1), Cmd("L", xB + tab_d, a1), Cmd("L", xB + tab_d, b1), Cmd("L", xB, b1),
             Cmd("L", xB, yB),
             \* bottom edge with 2 downward tabs
             Cmd("L", d2, yB), Cmd("L", d2, yB + tab_d), Cmd("L", c2, yB + tab_d), Cmd("L", c2, yB),
             Cmd("L", d1, yB), Cmd("L", d1, yB + tab_d), Cmd("L", c1, yB + tab_d), Cmd("L", c1, yB),
             Cmd("L", x0, yB),
             \* left edge with 2 inward pockets
             Cmd("L", x0, b1), Cmd("L", x0 + pocket_d, b1), Cmd("L", x0 + pocket_d, a1), Cmd("L", x0, a1),
             Cmd("L", x0, b2), Cmd("L", x0 + pocket_d, b2), Cmd("L", x0 + pocket_d, a2), Cmd("L", x0, a2),
             Cmd("L", x0, y0),
             CmdZ >>]

floor_outline(base_w, base_h, kerf) ==
    LET m == MIN_EDGE_MARGIN_MM
        fw == finger_feature_w_draw(kerf)
        pocket_d == finger_pocket_depth_draw(kerf)
        w == base_w
        h == base_h
        xL0 == m
        xL1 == m + fw
        xR0 == w - m - fw
        xR1 == w - m
        yT0 == m
        yT1 == m + fw
        yB0 == h - m - fw
        yB1 == h - m
    IN  [type |-> "path", stroke |-> "red", d |->
          << Cmd("M", 0, 0),
             \* top pockets (indent down)
             Cmd("L", xL0, 0), Cmd("L", xL0, pocket_d), Cmd("L", xL1, pocket_d), Cmd("L", xL1, 0),
             Cmd("L", xR0, 0), Cmd("L", xR0, pocket_d), Cmd("L", xR1, pocket_d), Cmd("L", xR1, 0),
             Cmd("L", w, 0),
             \* right pockets (indent left)
             Cmd("L", w, yT0), Cmd("L", w - pocket_d, yT0), Cmd("L", w - pocket_d, yT1), Cmd("L", w, yT1),
             Cmd("L", w, yB0), Cmd("L", w - pocket_d, yB0), Cmd("L", w - pocket_d, yB1), Cmd("L", w, yB1),
             Cmd("L", w, h),
             \* bottom pockets (indent up)
             Cmd("L", xR1, h), Cmd("L", xR1, h - pocket_d), Cmd("L", xR0, h - pocket_d), Cmd("L", xR0, h),
             Cmd("L", xL1, h), Cmd("L", xL1, h - pocket_d), Cmd("L", xL0, h - pocket_d), Cmd("L", xL0, h),
             Cmd("L", 0, h),
             \* left pockets (indent right)
             Cmd("L", 0, yB1), Cmd("L", pocket_d, yB1), Cmd("L", pocket_d, yB0), Cmd("L", 0, yB0),
             Cmd("L", 0, yT1), Cmd("L", pocket_d, yT1), Cmd("L", pocket_d, yT0), Cmd("L", 0, yT0),
             CmdZ >>]

\* a mutation of JointOutlineOf: the floor is outlined as a wall
JointOutlineFloorAsWall(p, kerf) ==
    IF IsWallName(p.name) \/ p.name = "floor" THEN wall_outline(p.base_w, p.base_h, kerf)
    ELSE IF IsDividerName(p.name)
         THEN [type |-> "rect", x |-> 0, y |-> 0, w |-> p.base_w, h |-> p.base_h, stroke |-> "red"]
         ELSE p.outline

\* the outline every piece gets: walls, floor, dividers (plain rectangles)
JointOutlineOf(p, kerf) ==
    IF IsWallName(p.name) THEN wall_outline(p.base_w, p.base_h, kerf)
    ELSE IF p.name = "floor" THEN floor_outline(p.base_w, p.base_h, kerf)
    ELSE IF IsDividerName(p.name)
         THEN [type |-> "rect", x |-> 0, y |-> 0, w |-> p.base_w, h |-> p.base_h, stroke |-> "red"]
         ELSE p.outline

add_finger_joint_outlines(pieces, params) ==
    [k \in 1..Len(pieces) |->
        [pieces[k] EXCEPT !.outline = JointOutlineOf(pieces[k], params.kerf)]]

(***************************************************************************)
(* Divider slots                                                           *)
(***************************************************************************)

\* a mutation of DividerSlotOps: the floor slit starts at the floor's edge
\* and the back wall gets no slot
DividerSlotOpsFloorFromEdge(pos, params) ==
    LET slot_w == divider_slot_draw_w(params.kerf)
        y0 == DIVIDER_SLOT_BOTTOM_MARGIN_MM
        slot_h == Max(0, params.H_out - DIVIDER_SLOT_TOP_CAP_MM - y0)
        x_wall == params.t + pos - slot_w \div 2
    IN  << <<"wall_front", svg_rect(x_wall, y0, slot_w, slot_h, "divider_slot")>>,
           <<"floor", svg_rect(x_wall, 0, slot_w, params.W_in, "divider_slot")>> >>

\* the three appends of one iteration of the loop over divider positions
DividerSlotOps(pos, params) ==
    LET slot_w == divider_slot_draw_w(params.kerf)
        y0 == DIVIDER_SLOT_BOTTOM_MARGIN_MM
        y1 == params.H_out - DIVIDER_SLOT_TOP_CAP_MM
        slot_h == Max(0, y1 - y0)
        x_center == params.t + pos
        x_wall == x_center - slot_w \div 2
        x_floor == x_center - slot_w \div 2
        y_floor == params.t
    IN  << <<"wall_front", svg_rect(x_wall, y0, slot_w, slot_h, "divider_slot")>>,
           <<"wall_back", svg_rect(x_wall, y0, slot_w, slot_h, "divider_slot")>>,
           <<"floor", svg_rect(x_floor, y_floor, slot_w, params.W_in, "divider_slot")>> >>

RECURSIVE AllDividerSlotOps(_, _)
AllDividerSlotOps(positions, params) ==
    IF positions = <<>> THEN <<>>
    ELSE DividerSlotOps(Head(positions), params) \o AllDividerSlotOps(Tail(positions), params)

add_divider_slots_front_to_back(pieces, params) ==
    ApplyCuts(pieces, AllDividerSlotOps(params.divider_positions, params))

(***************************************************************************)
(* Joint-based fasteners                                                   *)
(***************************************************************************)

\* the two cuts _add_tslot_on_right_edge appends to `wall`
tslot_on_right_edge(wall, kerf, y) ==
    LET bw == wall.base_w
        tab_d == finger_tab_depth_draw(kerf)
        nut_w == nut_pocket_draw_w(kerf)
        stem_w == screw_hole_draw_d(kerf)
        stem_len == T_SLOT_STEM_LENGTH_MM
        cx == bw - (nut_w \div 2 + 8000)
        cy == y
        x0 == cx
        x1 == bw + tab_d
        stem_len_eff == IF x1 - x0 < stem_len THEN Max(0, x1 - x0) ELSE stem_len
    IN  << <<wall.name, svg_rect(cx - nut_w \div 2, cy - nut_w \div 2, nut_w, nut_w, "tslot_pocket")>>,
           <<wall.name, svg_rect(x1 - stem_len_eff, cy - stem_w \div 2, stem_len_eff, stem_w,
                                 "tslot_stem")>> >>

\* the cut _add_clearance_holes_on_left_edge appends to `wall`
clearance_holes_on_left_edge(wall, kerf, y) ==
    LET hole_d == screw_hole_draw_d(kerf)
        pocket_d == finger_pocket_depth_draw(kerf)
        cx == pocket_d + hole_d \div 2 + 8000
        cy == y
    IN  << <<wall.name, svg_circle(cx, cy, hole_d \div 2, "clearance_hole")>> >>

\* the two cuts _add_floor_tslot appends to the floor
floor_tslot(floor, kerf, x, y) ==
    LET nut_w == nut_pocket_draw_w(kerf)
        stem_w == screw_hole_draw_d(kerf)
        stem_len == T_SLOT_STEM_LENGTH_MM
    IN  << <<floor.name, svg_rect(x - nut_w \div 2, y - nut_w \div 2, nut_w, nut_w, "tslot_pocket")>>,
           <<floor.name, svg_rect(x + nut_w \div 2, y - stem_w \div 2, stem_len, stem_w,
                                  "tslot_stem")>> >>

\* a mutation of Chain: opposite walls are paired
ChainOpposite ==
    << <<"wall_front", "wall_back">>, <<"wall_back", "wall_front">>,
       <<"wall_left", "wall_right">>, <<"wall_right", "wall_left">> >>

\* the corner chain: the right edge of the first wall mates the left edge of
\* the second
Chain ==
    << <<"wall_front", "wall_right">>, <<"wall_right", "wall_back">>,
       <<"wall_back", "wall_left">>, <<"wall_left", "wall_front">> >>

\* one iteration of the loop over the chain
ChainOps(pieces, kerf, link) ==
    LET fw == finger_feature_w_draw(kerf)
        m == MIN_EDGE_MARGIN_MM
        tab_wall == find_piece(pieces, link[1])
        mate_wall == find_piece(pieces, link[2])
        ys == corner_centers(Min(tab_wall.base_h, mate_wall.base_h), fw, m)
    IN  tslot_on_right_edge(tab_wall, kerf, ys[1]) \o clearance_holes_on_left_edge(mate_wall, kerf, ys[1])
        \o tslot_on_right_edge(tab_wall, kerf, ys[2]) \o clearance_holes_on_left_edge(mate_wall, kerf, ys[2])

\* the floor T-slots: for x in xs_floor (top, bottom), for y in ys_floor (left, right)
FloorOps(pieces, kerf) ==
    LET fw == finger_feature_w_draw(kerf)
        m == MIN_EDGE_MARGIN_MM
        floor == find_piece(pieces, "floor")
        fw_floor == floor.base_w
        fh_floor == floor.base_h
        xs_floor == corner_centers(fw_floor, fw, m)
        ys_floor == corner_centers(fh_floor, fw, m)
    IN  floor_tslot(floor, kerf, xs_floor[1], m + fw \div 2)
        \o floor_tslot(floor, kerf, xs_floor[1], fh_floor - (m + fw \div 2))
        \o floor_tslot(floor, kerf, xs_floor[2], m + fw \div 2)
        \o floor_tslot(floor, kerf, xs_floor[2], fh_floor - (m + fw \div 2))
        \o floor_tslot(floor, kerf, m + fw \div 2, ys_floor[1])
        \o floor_tslot(floor, kerf, fw_floor - (m + fw \div 2), ys_floor[1])
        \o floor_tslot(floor, kerf, m + fw \div 2, ys_floor[2])
        \o floor_tslot(floor, kerf, fw_floor - (m + fw \div 2), ys_floor[2])

\* the two bottom-tab clearance holes of one wall
BottomTabOps(pieces, kerf, wall_name) ==
    LET fw == finger_feature_w_draw(kerf)
        m == MIN_EDGE_MARGIN_MM
        tab_d == finger_tab_depth_draw(kerf)
        hole_d == screw_hole_draw_d(kerf)
        w == find_piece(pieces, wall_name)
        xs == corner_centers(w.base_w, fw, m)
        cy == w.base_h + tab_d \div 2
    IN  << <<wall_name, svg_circle(xs[1], cy, hole_d \div 2, "bottom_tab_hole")>>,
           <<wall_name, svg_circle(xs[2], cy, hole_d \div 2, "bottom_tab_hole")>> >>

\* the appends of _add_joint_based_fasteners, in the order it makes them
FastenerOps(pieces, kerf) ==
    ChainOps(pieces, kerf, Chain[1]) \o ChainOps(pieces, kerf, Chain[2])
    \o ChainOps(pieces, kerf, Chain[3]) \o ChainOps(pieces, kerf, Chain[4])
    \o FloorOps(pieces, kerf)
    \o BottomTabOps(pieces, kerf, WallNames[1]) \o BottomTabOps(pieces, kerf, WallNames[2])
    \o BottomTabOps(pieces, kerf, WallNames[3]) \o BottomTabOps(pieces, kerf, WallNames[4])

add_joint_based_fasteners(pieces, params) ==
    ApplyCuts(pieces, FastenerOps(pieces, params.kerf))

(***************************************************************************)
(* Engraving                                                               *)
(***************************************************************************)

\* <<x_min, y_min, x_max, y_max>>
calculate_engraving_safe_bounds(piece_name, piece, params) ==
    LET bw == piece.base_w
        bh == piece.base_h
        kerf == params.kerf
        margin == ENGRAVE_MARGIN_MM
        fw == finger_feature_w_draw(kerf)
        m == MIN_EDGE_MARGIN_MM
        ys_fastener == corner_centers(bh, fw, m)
        fastener_size == fw + 60000
        y_top_max == ys_fastener[1] + fastener_size \div 2 + 20000
        y_bot_min == ys_fastener[2] - fastener_size \div 2 - 20000
        side == piece_name \in {"wall_left", "wall_right"}
    IN  IF IsWallName(piece_name)
        THEN << IF side THEN margin + 30000 ELSE margin,
                y_top_max + 60000,
                IF side THEN bw - margin - 30000 ELSE bw - margin,
                y_bot_min - 60000 >>
        ELSE << margin, margin, bw - margin, bh - margin >>

\* 75% of the safe width, 50% of the safe height
calculate_text_box_size(safe_width, safe_height) ==
    << (safe_width * 75) \div 100, (safe_height * 50) \div 100 >>

WallKeys == <<"front", "back", "left", "right">>

\* len(text_content)
TextLen(text) == Len(text)

\* the engraves one iteration of the loop over the walls appends
WallEngraves(pieces, params, wall_key, piece_name) ==
    LET mode == params.wall_mode[wall_key]
        piece == find_piece(pieces, piece_name)
        b == calculate_engraving_safe_bounds(piece_name, piece, params)
        x_min == b[1]
        y_min == b[2]
        x_max == b[3]
        y_max == b[4]
        safe_w == Max(0, x_max - x_min)
        safe_h == Max(0, y_max - y_min)
    IN  IF mode = "none" THEN <<>>
        ELSE IF safe_w <= 0 \/ safe_h <= 0 THEN <<>>
        ELSE IF mode = "text"
        THEN LET text_content == params.wall_text[wall_key]
                 rotation == IF wall_key = "left" THEN 90
                             ELSE IF wall_key = "right" THEN -90 ELSE 0
                 calc_w == IF rotation # 0 THEN safe_h ELSE safe_w
                 calc_h == IF rotation # 0 THEN safe_w ELSE safe_h
                 box == calculate_text_box_size(calc_w, calc_h)
                 font_size == calculate_auto_font_size(TextLen(text_content), box[1], box[2],
                                                       MAX_FONT_SIZE_DEFAULT, MIN_FONT_SIZE_DEFAULT)
                 cx == x_min + safe_w \div 2
                 cy == IF rotation = 0 THEN y_max - (font_size * 3) \div 10
                       ELSE y_min + safe_h \div 2
             IN  << svg_text(cx, cy, text_content, font_size, rotation) >>
        ELSE IF mode = "fractal"
        THEN LET paths == sierpinski_paths_clipped_by_keepouts(
                              Rect(x_min, y_min, safe_w, safe_h), 4, T_MM, <<>>)
             IN  [k \in 1..Len(paths) |-> svg_path(paths[k], "black")]
        ELSE <<>>

\* one iteration of the loop over the walls
EngraveWall(pieces, params, k) ==
    AppendEngraves(pieces, WallNames[k], WallEngraves(pieces, params, WallKeys[k], WallNames[k]))

\* a mutation of add_standard_engraving: the loop stops before wall_right
AddStandardEngravingThreeWalls(pieces, params) ==
    EngraveWall(EngraveWall(EngraveWall(pieces, params, 1), params, 2), params, 3)

add_standard_engraving(pieces, params) ==
    EngraveWall(EngraveWall(EngraveWall(EngraveWall(pieces, params, 1), params, 2), params, 3),
                params, 4)

(***************************************************************************)
(* Piece construction                                                      *)
(***************************************************************************)

\* lines 68-83: the pieces before any geometry is added
\* a mutation of new_pieces: the loop over the dividers is left out
NewPiecesNoDividers(params) ==
    << new_wall_piece("wall_front", params.L_out, params.H_out, params.kerf),
       new_wall_piece("wall_back", params.L_out, params.H_out, params.kerf),
       new_wall_piece("wall_left", params.W_out, params.H_out, params.kerf),
       new_wall_piece("wall_right", params.W_out, params.H_out, params.kerf),
       new_floor_piece("floor", params.L_out, params.W_out) >>

new_pieces(params) ==
    << new_wall_piece("wall_front", params.L_out, params.H_out, params.kerf),
       new_wall_piece("wall_back", params.L_out, params.H_out, params.kerf),
       new_wall_piece("wall_left", params.W_out, params.H_out, params.kerf),
       new_wall_piece("wall_right", params.W_out, params.H_out, params.kerf),
       new_floor_piece("floor", params.L_out, params.W_out) >>
    \o [i \in 1..params.num_dividers |->
           new_piece(DividerName(i), params.W_in, params.H_out - T_MM)]

build_pieces(params) ==
    add_standard_engraving(
        add_joint_based_fasteners(
            add_divider_slots_front_to_back(
                add_finger_joint_outlines(new_pieces(params), params), params), params), params)

(***************************************************************************)
(* validate.py                                                             *)
(*                                                                         *)
(* inputs: length, width, height and the divider positions in hundredths   *)
(* of an inch; dividerPos is the list <<dividerPos1, dividerPos2>> as far  *)
(* as the keys are present; text, fractal and content map each wall to its *)
(* flag or text.  The result is [ok |-> TRUE, params |-> ...] or, for a    *)
(* raised ValueError, [ok |-> FALSE, error |-> message].                   *)
(***************************************************************************)

inches_to_mm(x_in) == x_in * (INCH_TO_MM \div 100)

Raise(message) == [ok |-> FALSE, error |-> message]

WALLS == {"front", "back", "left", "right"}

\* s.strip() is empty
IsBlank(s) == s \in {"", " "}

build_wall_mode(inputs) ==
    [wall \in WALLS |->
        IF inputs.text[wall] THEN "text"
        ELSE IF inputs.fractal[wall] THEN "fractal" ELSE "none"]

\* lines 61-69: the positions in mm
DividerPositionsMM(inputs) ==
    [k \in 1..inputs.numDividers |-> inches_to_mm(inputs.dividerPos[k])]

\* lines 74-79: the message of the error raised, "ok" when none is
DividerGapError(divider_positions, num_dividers, L_in, W_in) ==
    LET min_gap == DIVIDER_MIN_GAP_MM
    IN  IF \E k \in 1..Len(divider_positions) :
              divider_positions[k] < min_gap \/ divider_positions[k] > W_in - min_gap
        THEN "Divider too close to a wall (violates minimum gap)."
        ELSE IF num_dividers = 2 /\ divider_positions[2] - divider_positions[1] < min_gap
        THEN "Dividers too close to each other (violates minimum gap)."
        ELSE "ok"

validate_inputs(inputs) ==
    LET L_out == inches_to_mm(inputs.length)
        W_out == inches_to_mm(inputs.width)
        H_out == inches_to_mm(inputs.height)
        kerf == inputs.kerf_mm
        t == T_MM
        L_in == L_out - 2 * t
        W_in == W_out - 2 * t
        wall_mode == build_wall_mode(inputs)
        num_dividers == inputs.numDividers
        divider_positions == DividerPositionsMM(inputs)
        gap_error == DividerGapError(divider_positions, num_dividers, L_in, W_in)
    IN  IF inputs.length <= 0 THEN Raise("length must be > 0")
        ELSE IF inputs.width <= 0 THEN Raise("width must be > 0")
        ELSE IF inputs.height <= 0 THEN Raise("height must be > 0")
        ELSE IF L_in <= 0 \/ W_in <= 0
        THEN Raise("Box too small: interior length/width must be positive after subtracting thickness.")
        ELSE IF \E wall \in WALLS : inputs.text[wall] /\ inputs.fractal[wall]
        THEN Raise("cannot have both text and fractal.")
        ELSE IF \E wall \in WALLS : wall_mode[wall] = "text" /\ IsBlank(inputs.content[wall])
        THEN Raise("text enabled but content is empty.")
        ELSE IF num_dividers \notin {0, 1, 2} THEN Raise("numDividers must be 0, 1, or 2.")
        ELSE IF num_dividers >= 1 /\ Len(inputs.dividerPos) < 1
        THEN Raise("dividerPos1 is required when numDividers >= 1.")
        ELSE IF num_dividers = 2 /\ Len(inputs.dividerPos) < 2
        THEN Raise("dividerPos2 is required when numDividers == 2.")
        ELSE IF num_dividers = 2 /\ ~ (divider_positions[1] < divider_positions[2])
        THEN Raise("For 2 dividers, dividerPos1 must be < dividerPos2.")
        ELSE IF gap_error # "ok" THEN Raise(gap_error)
        ELSE [ok |-> TRUE,
              params |-> [L_out |-> L_out, W_out |-> W_out, H_out |-> H_out,
                          L_in |-> L_in, W_in |-> W_in, t |-> t, kerf |-> kerf,
                          wall_mode |-> wall_mode, wall_text |-> inputs.content,
                          num_dividers |-> num_dividers,
                          divider_positions |-> divider_positions]]

(***************************************************************************)
(* Packing: shelf_pack                                                     *)
(***************************************************************************)

\* bounds of the packer's exploration
MaxPanels == 3
MaxGap == 1
PanelSizes == {1, 2, 4}
SheetSizes == {3, 6}

\* sorted(pieces, key=h, reverse=True): a stable sort, equal heights keep
\* their input order.  InsertByHeight puts p after every element at least
\* as tall.
\* a mutation of InsertByHeight: p goes before the elements of its height
RECURSIVE InsertByHeightTiesFirst(_, _)
InsertByHeightTiesFirst(s, p) ==
    IF s = <<>> THEN <<p>>
    ELSE IF Head(s).h > p.h THEN <<Head(s)>> \o InsertByHeightTiesFirst(Tail(s), p)
    ELSE <<p>> \o s

RECURSIVE InsertByHeight(_, _)
InsertByHeight(s, p) ==
    IF s = <<>> THEN <<p>>
    ELSE IF Head(s).h >= p.h THEN <<Head(s)>> \o InsertByHeight(Tail(s), p)
    ELSE <<p>> \o s

RECURSIVE SortByHeightDesc(_)
SortByHeightDesc(s) ==
    IF s = <<>> THEN <<>>
    ELSE InsertByHeight(SortByHeightDesc(SubSeq(s, 1, Len(s) - 1)), s[Len(s)])

\* the loop state before the first iteration
PackStart(gap) ==
    [x |-> gap, y |-> gap, row_h |-> 0, placed |-> <<>>, failed |-> FALSE]

\* a mutation of PackStep: the row height is overwritten, not maximised
PackStepRowHLast(st, p, sheet_w, sheet_h, gap) ==
    LET wrap == st.x + p.w + gap > sheet_w
        x1 == IF wrap THEN gap ELSE st.x
        y1 == IF wrap THEN st.y + st.row_h + gap ELSE st.y
        rh1 == IF wrap THEN 0 ELSE st.row_h
    IN  IF y1 + p.h + gap > sheet_h
        THEN [x |-> x1, y |-> y1, row_h |-> rh1, placed |-> st.placed, failed |-> TRUE]
        ELSE [x |-> x1 + p.w + gap, y |-> y1, row_h |-> p.h,
              placed |-> Append(st.placed, [name |-> p.name, x |-> x1, y |-> y1, rot |-> 0]),
              failed |-> FALSE]

\* a mutation of PackStep: the sheet-height test is off by the panel height
PackStepNoHeightTest(st, p, sheet_w, sheet_h, gap) ==
    LET wrap == st.x + p.w + gap > sheet_w
        x1 == IF wrap THEN gap ELSE st.x
        y1 == IF wrap THEN st.y + st.row_h + gap ELSE st.y
        rh1 == IF wrap THEN 0 ELSE st.row_h
    IN  IF y1 + gap > sheet_h
        THEN [x |-> x1, y |-> y1, row_h |-> rh1, placed |-> st.placed, failed |-> TRUE]
        ELSE [x |-> x1 + p.w + gap, y |-> y1, row_h |-> Max(rh1, p.h),
              placed |-> Append(st.placed, [name |-> p.name, x |-> x1, y |-> y1, rot |-> 0]),
              failed |-> FALSE]

\* one iteration of the for loop over the sorted items
PackStep(st, p, sheet_w, sheet_h, gap) ==
    LET wrap == st.x + p.w + gap > sheet_w
        x1 == IF wrap THEN gap ELSE st.x
        y1 == IF wrap THEN st.y + st.row_h + gap ELSE st.y
        rh1 == IF wrap THEN 0 ELSE st.row_h
    IN  IF y1 + p.h + gap > sheet_h
        THEN [x |-> x1, y |-> y1, row_h |-> rh1, placed |-> st.placed, failed |-> TRUE]
        ELSE [x |-> x1 + p.w + gap, y |-> y1, row_h |-> Max(rh1, p.h),
              placed |-> Append(st.placed, [name |-> p.name, x |-> x1, y |-> y1, rot |-> 0]),
              failed |-> FALSE]

\* shelf_pack as a function: the loop run to its return
RECURSIVE PackLoop(_, _, _, _, _, _)
PackLoop(st, items, i, sheet_w, sheet_h, gap) ==
    IF st.failed THEN None
    ELSE IF i > Len(items) THEN st.placed
    ELSE PackLoop(PackStep(st, items[i], sheet_w, sheet_h, gap), items, i + 1,
                  sheet_w, sheet_h, gap)

shelf_pack(pieces, sheet_w, sheet_h, gap) ==
    PackLoop(PackStart(gap), SortByHeightDesc(pieces), 1, sheet_w, sheet_h, gap)

\* the packer is not running
PackIdle == [pc |-> "idle"]

\* a call of shelf_pack: arguments bound, nothing executed yet
PackCall(pieces, sheet_w, sheet_h, gap) ==
    [pc |-> "sort", pieces |-> pieces, sheet_w |-> sheet_w, sheet_h |-> sheet_h,
     gap |-> gap, items |-> <<>>, i |-> 1, st |-> PackStart(gap), ret |-> None]

\* line 28: items = sorted(...)
PackSort ==
    /\ pack.pc = "sort"
    /\ pack' = [pack EXCEPT !.pc = "loop", !.items = SortByHeightDesc(pack.pieces)]
    /\ UNCHANGED <<mn, frac, font, bld, val, krf>>

\* lines 34-46: one iteration; line 42 returns None
PackIterate ==
    /\ pack.pc = "loop"
    /\ pack.i <= Len(pack.items)
    /\ LET st1 == PackStep(pack.st, pack.items[pack.i], pack.sheet_w, pack.sheet_h, pack.gap)
       IN  pack' = [pack EXCEPT !.st = st1,
                                !.i = IF st1.failed THEN pack.i ELSE pack.i + 1,
                                !.pc = IF st1.failed THEN "returned" ELSE "loop",
                                !.ret = None]
    /\ UNCHANGED <<mn, frac, font, bld, val, krf>>

\* line 48: return placed
PackReturn ==
    /\ pack.pc = "loop"
    /\ pack.i > Len(pack.items)
    /\ pack' = [pack EXCEPT !.pc = "returned", !.ret = pack.st.placed]
    /\ UNCHANGED <<mn, frac, font, bld, val, krf>>

\* panel lists of the bounded exploration, named by their input position
RECURSIVE PanelLists(_)
PanelLists(n) ==
    IF n = 0 THEN {<<>>}
    ELSE LET shorter == PanelLists(n - 1)
         IN  shorter \cup
             {Append(s, [name |-> Len(s) + 1, w |-> w, h |-> h]) :
                 s \in {t \in shorter : Len(t) = n - 1}, w \in PanelSizes, h \in PanelSizes}

MainIdle == [pc |-> "idle"]
FracIdle == [pc |-> "idle"]
FontIdle == [pc |-> "idle"]
BuildIdle == [pc |-> "idle"]
ValIdle == [pc |-> "idle"]
KerfIdle == [pc |-> "idle"]

InitPack ==
    /\ \E pieces \in PanelLists(MaxPanels), sw \in SheetSizes, sh \in SheetSizes, g \in 0..MaxGap :
          pack = PackCall(pieces, sw, sh, g)
    /\ mn = MainIdle
    /\ frac = FracIdle
    /\ font = FontIdle
    /\ bld = BuildIdle
    /\ val = ValIdle
    /\ krf = KerfIdle

NextPack == PackSort \/ PackIterate \/ PackReturn

SpecPack == InitPack /\ [][NextPack]_vars

\* the input panel a placement belongs to
PieceNamed(pieces, name) == CHOOSE p \in {pieces[k] : k \in 1..Len(pieces)} : p.name = name

PackReturnedList == pack.pc = "returned" /\ pack.ret # None

\* C1: whenever shelf_pack returns a placement list, any two distinct placed
\* panels are separated by at least the gap in x or in y.
C1_GapSeparated ==
    PackReturnedList =>
        \A i, j \in 1..Len(pack.ret) :
            i # j =>
                LET a == pack.ret[i]
                    b == pack.ret[j]
                    pa == PieceNamed(pack.pieces, a.name)
                    pb == PieceNamed(pack.pieces, b.name)
                IN  \/ a.x + pa.w + pack.gap <= b.x
                    \/ b.x + pb.w + pack.gap <= a.x
                    \/ a.y + pa.h + pack.gap <= b.y
                    \/ b.y + pb.h + pack.gap <= a.y

\* a returned list with panels in two rows and two in one row
C1_Witness ==
    /\ PackReturnedList
    /\ Len(pack.ret) = 3
    /\ pack.gap = 1
    /\ pack.ret[1].y = pack.ret[2].y
    /\ pack.ret[3].y > pack.ret[1].y
    /\ PieceNamed(pack.pieces, pack.ret[2].name).h < PieceNamed(pack.pieces, pack.ret[1].name).h

\* C2: whenever shelf_pack returns a placement list, every placed panel lies
\* inside the sheet.
C2_InsideSheet ==
    PackReturnedList =>
        \A i \in 1..Len(pack.ret) :
            LET a == pack.ret[i]
                pa == PieceNamed(pack.pieces, a.name)
            IN  /\ 0 <= a.x /\ a.x + pa.w <= pack.sheet_w
                /\ 0 <= a.y /\ a.y + pa.h <= pack.sheet_h

(***************************************************************************)
(* Fractal engraving: sierpinski_paths_clipped_by_keepouts, run leaf by    *)
(* leaf                                                                    *)
(***************************************************************************)

\* bounds of the fractal exploration
MaxDepth == 2
FracWidths == {0, 40000, 100000}
FracHeights == {0, 30000, 100000}
FracInsets == {0, 10000, 60000}
FracKeepouts ==
    { <<>>,
      << Rect(0, 0, 30000, 100000) >>,
      << Rect(45000, 0, 10000, 40000), Rect(0, 70000, 100000, 10000) >>,
      << Rect(0, 0, 100000, 100000) >> }

FracCall(rect, depth, inset, keepouts) ==
    [pc |-> "leaves", rect |-> rect, depth |-> depth, inset |-> inset,
     keepouts |-> keepouts, leaf |-> <<>>, k |-> 1, out |-> <<>>, ret |-> None]

\* line 111: leaf = sierpinski_leaf_triangles(...)
FracLeaves ==
    /\ frac.pc = "leaves"
    /\ frac' = [frac EXCEPT !.pc = "filter",
                            !.leaf = sierpinski_leaf_triangles(frac.rect, frac.depth, frac.inset)]
    /\ UNCHANGED <<pack, mn, font, bld, val, krf>>

\* lines 114-118: one leaf is dropped or appended
FracFilter ==
    /\ frac.pc = "filter"
    /\ frac.k <= Len(frac.leaf)
    /\ frac' = [frac EXCEPT !.out = FilterStep(frac.out, frac.leaf[frac.k], frac.keepouts,
                                               Scale(frac.depth)),
                            !.k = frac.k + 1]
    /\ UNCHANGED <<pack, mn, font, bld, val, krf>>

\* line 120: return out
FracReturn ==
    /\ frac.pc = "filter"
    /\ frac.k > Len(frac.leaf)
    /\ frac' = [frac EXCEPT !.pc = "returned", !.ret = frac.out]
    /\ UNCHANGED <<pack, mn, font, bld, val, krf>>

InitFractal ==
    /\ \E w \in FracWidths, h \in FracHeights, ins \in FracInsets, d \in 0..MaxDepth,
          ko \in FracKeepouts :
          frac = FracCall(Rect(0, 0, w, h), d, ins, ko)
    /\ pack = PackIdle
    /\ mn = MainIdle
    /\ font = FontIdle
    /\ bld = BuildIdle
    /\ val = ValIdle
    /\ krf = KerfIdle

NextFractal == FracLeaves \/ FracFilter \/ FracReturn

SpecFractal == InitFractal /\ [][NextFractal]_vars

\* s is t with elements removed: the elements of s occur in t in s's order
RECURSIVE IsSubSeqOf(_, _)
IsSubSeqOf(s, t) ==
    IF s = <<>> THEN TRUE
    ELSE IF t = <<>> THEN FALSE
    ELSE IF Head(s) = Head(t) THEN IsSubSeqOf(Tail(s), Tail(t))
    ELSE IsSubSeqOf(s, Tail(t))

\* the printed path of every leaf, in leaf order
LeafPaths ==
    [k \in 1..Len(frac.leaf) |->
        triangle_to_path(frac.leaf[k][1], frac.leaf[k][2], frac.leaf[k][3], Scale(frac.depth))]

\* the leaves whose bounding box meets no keepout
KeptLeaves ==
    {k \in 1..Len(frac.leaf) : ~ HitsKeepout(frac.leaf[k], frac.keepouts, Scale(frac.depth))}

\* C10: at depth d there are exactly 3^d leaf triangles for every rectangle
\* and inset; the returned paths are those of a sub-sequence of the leaves, in
\* leaf order, one per leaf that meets no keepout; with no keepouts all 3^d
\* are returned.
C10_LeavesAndFilter ==
    /\ frac.pc \in {"filter", "returned"} => Len(frac.leaf) = 3 ^ frac.depth
    /\ frac.pc = "returned" =>
          /\ IsSubSeqOf(frac.ret, LeafPaths)
          /\ Len(frac.ret) = Cardinality(KeptLeaves)
          /\ Len(frac.ret) <= 3 ^ frac.depth
          /\ frac.keepouts = <<>> => frac.ret = LeafPaths

\* a run at depth 2 on a proper rectangle in which some leaves were dropped
\* and some kept
C10_Witness ==
    /\ frac.pc = "returned"
    /\ frac.depth = 2
    /\ frac.rect.w > 0 /\ frac.rect.h > 0
    /\ Len(frac.ret) > 0
    /\ Len(frac.ret) < Len(frac.leaf)

(***************************************************************************)
(* Auto font size, run iteration by iteration                              *)
(***************************************************************************)

\* bounds of the font-size exploration
MaxTextLen == 3
FontMaxes == {20000, 30000, 90000, 95000, 96000, 99000, 100000}
FontMins == {30000, 42000}
FontBoxWidths == {40000, 160000, 400000}
FontBoxHeights == {50000, 118000, 300000}

FontCall(text_len, box_width, box_height, max_font_size, min_font_size) ==
    [pc |-> "start", text_len |-> text_len, box_width |-> box_width,
     box_height |-> box_height, max_font_size |-> max_font_size,
     min_font_size |-> min_font_size, font_size |-> max_font_size, ret |-> None]

\* lines 534-535: empty text returns the maximum; line 543 otherwise
FontStart ==
    /\ font.pc = "start"
    /\ font' = IF font.text_len = 0
               THEN [font EXCEPT !.pc = "returned", !.ret = font.max_font_size]
               ELSE [font EXCEPT !.pc = "loop", !.font_size = font.max_font_size]
    /\ UNCHANGED <<pack, mn, frac, bld, val, krf>>

\* lines 546-559: one evaluation of the while condition, the loop body when
\* it holds, the final return when it does not
FontIterate ==
    /\ font.pc = "loop"
    /\ LET step == FontStep(font.text_len, font.font_size, font.box_width, font.box_height,
                            font.min_font_size)
       IN  font' = IF step.done
                   THEN [font EXCEPT !.pc = "returned", !.ret = step.font_size]
                   ELSE [font EXCEPT !.font_size = step.font_size]
    /\ UNCHANGED <<pack, mn, frac, bld, val, krf>>

InitFont ==
    /\ \E n \in 0..MaxTextLen, bw \in FontBoxWidths, bh \in FontBoxHeights,
          mx \in FontMaxes, mi \in FontMins :
          font = FontCall(n, bw, bh, mx, mi)
    /\ pack = PackIdle
    /\ mn = MainIdle
    /\ frac = FracIdle
    /\ bld = BuildIdle
    /\ val = ValIdle
    /\ krf = KerfIdle

NextFont == FontStart \/ FontIterate

SpecFont == InitFont /\ [][NextFont]_vars

\* the search under its scheduling: a call that has started keeps running
SpecFontFair == SpecFont /\ WF_vars(NextFont)

\* the result of the same call from another starting size
FontResultFrom(max_font_size) ==
    calculate_auto_font_size(font.text_len, font.box_width, font.box_height,
                             max_font_size, font.min_font_size)

\* C9 as claimed: the result is monotonic in the starting size, for all
\* starting sizes.
C9_MonotonicAnyStart ==
    font.pc = "returned" =>
        \A m2 \in FontMaxes : font.max_font_size <= m2 => font.ret <= FontResultFrom(m2)

\* C9 as amended: the result is monotonic in the starting size for starting
\* sizes that differ by a whole number of 0.5 mm steps.
C9_MonotonicOnStepGrid ==
    font.pc = "returned" =>
        \A m2 \in FontMaxes :
            (font.max_font_size <= m2 /\ (m2 - font.max_font_size) % FONT_STEP = 0)
                => font.ret <= FontResultFrom(m2)

\* a search that stepped below a larger starting size on its grid and
\* returned less than the search from there
C9_Witness ==
    /\ font.pc = "returned"
    /\ font.text_len > 0
    /\ font.max_font_size = 90000
    /\ font.ret = 90000
    /\ FontResultFrom(100000) = 95000

(***************************************************************************)
(* Rendering: _render_shape, to_svg                                        *)
(***************************************************************************)

\* _escape_xml on the texts of the exploration: none of them holds one of
\* & < > " ' except "A&B"
escape_xml(text) == IF text = "A&B" THEN "A&amp;B" ELSE text

\* the element _render_shape writes, as a record of its attributes
render_shape(shape, dx, dy) ==
    IF shape.type = "rect"
    THEN [tag |-> "rect", x |-> shape.x + dx, y |-> shape.y + dy,
          width |-> shape.w, height |-> shape.h, stroke |-> shape.stroke]
    ELSE IF shape.type = "circle"
    THEN [tag |-> "circle", cx |-> shape.cx + dx, cy |-> shape.cy + dy, r |-> shape.r,
          stroke |-> shape.stroke]
    ELSE IF shape.type = "text"
    THEN LET x == shape.x + dx
             y == shape.y + dy
             text == escape_xml(shape.text)
         IN  IF shape.rotation # 0
             THEN [tag |-> "g", translate |-> <<x, y>>, rotate |-> shape.rotation,
                   child |-> [tag |-> "text", x |-> 0, y |-> 0, font |-> shape.font,
                              size |-> shape.size, anchor |-> shape.anchor,
                              stroke |-> shape.stroke, text |-> text]]
             ELSE [tag |-> "text", x |-> x, y |-> y, font |-> shape.font, size |-> shape.size,
                   anchor |-> shape.anchor, stroke |-> shape.stroke, text |-> text]
    ELSE [tag |-> "g", translate |-> <<dx, dy>>, rotate |-> 0,
          child |-> [tag |-> "path", d |-> shape.d, stroke |-> shape.stroke]]

\* place_map[name]: the last placement of that name
PlaceOf(placements, name) ==
    placements[CHOOSE k \in 1..Len(placements) :
                  placements[k].name = name
                  /\ \A j \in (k + 1)..Len(placements) : placements[j].name # name]

\* the elements of one piece: outline, cuts, engraves
RenderPiece(p, pl) ==
    LET shapes == <<p.outline>> \o p.cuts \o p.engraves
    IN  [k \in 1..Len(shapes) |-> render_shape(shapes[k], pl.x, pl.y)]

RECURSIVE RenderPieces(_, _, _)
RenderPieces(pieces, placements, k) ==
    IF k > Len(pieces) THEN <<>>
    ELSE RenderPiece(pieces[k], PlaceOf(placements, pieces[k].name))
         \o RenderPieces(pieces, placements, k + 1)

to_svg(pieces, placements, sheet_w, sheet_h) ==
    [width |-> sheet_w, height |-> sheet_h,
     body |-> <<[tag |-> "rect", x |-> 0, y |-> 0, width |-> "100%", height |-> "100%"]>>
              \o RenderPieces(pieces, placements, 1)]

(***************************************************************************)
(* Inputs of the bounded exploration                                       *)
(***************************************************************************)

\* hundredths of an inch; the accepted ones are whole or half inches, so
\* that every panel size is a whole number of tenths of a millimetre
InLengths == {0, 600, 1000, 10000}
InWidths == {20, 400, 600}
InHeights == {200, 300, 500, 1800}
InPositions == {10, 200, 333, 350, 667}

NoFlags == [wall \in WALLS |-> FALSE]
NoContent == [wall \in WALLS |-> ""]

\* the answers to the decoration prompts: per wall a mode and, for text, a
\* non-blank content (prompt_non_empty_text)
Decorations ==
    { [text |-> NoFlags, fractal |-> NoFlags, content |-> NoContent],
      [text |-> [NoFlags EXCEPT !["front"] = TRUE, !["left"] = TRUE],
       fractal |-> NoFlags,
       content |-> [NoContent EXCEPT !["front"] = "Incline", !["left"] = "Left"]],
      [text |-> [NoFlags EXCEPT !["back"] = TRUE, !["right"] = TRUE],
       fractal |-> [NoFlags EXCEPT !["front"] = TRUE],
       content |-> [NoContent EXCEPT !["back"] = "Precision Laser Engraving", !["right"] = "Crafted Box"]] }

\* main.py _build_base_inputs
build_base_inputs(length_in, width_in, height_in, num_dividers, divider_positions) ==
    [length |-> length_in, width |-> width_in, height |-> height_in,
     numDividers |-> num_dividers, kerf_mm |-> KERF_MM_DEFAULT,
     dividerPos |-> divider_positions,
     text |-> NoFlags, fractal |-> NoFlags, content |-> NoContent]

\* the divider answers: as many positions as dividers
DividerAnswers(n) ==
    IF n = 0 THEN {<<>>}
    ELSE IF n = 1 THEN {<<a>> : a \in InPositions}
    ELSE {<<a, b>> : a \in InPositions, b \in InPositions}

(***************************************************************************)
(* build_pieces, stage by stage                                            *)
(***************************************************************************)

\* lines 64-83
BuildNew ==
    /\ bld.pc = "new"
    /\ bld' = [bld EXCEPT !.pc = "outlines", !.pieces = new_pieces(bld.params)]
    /\ UNCHANGED <<pack, mn, frac, font, val, krf>>

\* line 86
BuildOutlines ==
    /\ bld.pc = "outlines"
    /\ bld' = [bld EXCEPT !.pc = "slots",
                          !.pieces = add_finger_joint_outlines(bld.pieces, bld.params)]
    /\ UNCHANGED <<pack, mn, frac, font, val, krf>>

\* line 89
BuildSlots ==
    /\ bld.pc = "slots"
    /\ bld' = [bld EXCEPT !.pc = "fasteners",
                          !.pieces = add_divider_slots_front_to_back(bld.pieces, bld.params)]
    /\ UNCHANGED <<pack, mn, frac, font, val, krf>>

\* line 92; ops records the appends the stage made, in order
BuildFasteners ==
    /\ bld.pc = "fasteners"
    /\ bld' = [bld EXCEPT !.pc = "engraving",
                          !.pieces = add_joint_based_fasteners(bld.pieces, bld.params),
                          !.ops = FastenerOps(bld.pieces, bld.params.kerf)]
    /\ UNCHANGED <<pack, mn, frac, font, val, krf>>

\* lines 95-97
BuildEngraving ==
    /\ bld.pc = "engraving"
    /\ bld' = [bld EXCEPT !.pc = "built",
                          !.pieces = add_standard_engraving(bld.pieces, bld.params)]
    /\ UNCHANGED <<pack, mn, frac, font, val, krf>>

\* the heights of the boxes built: those of the prompts and a 1 in box,
\* lower than the two corner features of an edge need
BuildHeights == InHeights \cup {100}

\* the lengths of the boxes built: those of the prompts and a 0.5 in box,
\* shorter than a floor T-slot reaches
BuildLengths == InLengths \cup {50}

\* the validated parameter sets of the exploration
InitBuild ==
    /\ \E l \in BuildLengths, w \in InWidths, h \in BuildHeights, n \in 0..2, dec \in Decorations :
          \E pos \in DividerAnswers(n) :
             LET base == build_base_inputs(l, w, h, n, pos)
                 res == validate_inputs([base EXCEPT !.text = dec.text, !.fractal = dec.fractal,
                                                     !.content = dec.content])
             IN  /\ res.ok
                 /\ bld = [pc |-> "new", params |-> res.params, pieces |-> <<>>, ops |-> <<>>]
    /\ pack = PackIdle
    /\ mn = MainIdle
    /\ frac = FracIdle
    /\ font = FontIdle
    /\ val = ValIdle
    /\ krf = KerfIdle

NextBuild == BuildNew \/ BuildOutlines \/ BuildSlots \/ BuildFasteners \/ BuildEngraving

SpecBuild == InitBuild /\ [][NextBuild]_vars

(***************************************************************************)
(* Properties of the joint outlines                                        *)
(***************************************************************************)

\* the pieces carry their final outline from the end of the outline stage on
OutlinesDone == bld.pc \in {"slots", "fasteners", "engraving", "built"}
FastenersDone == bld.pc \in {"engraving", "built"}

JointPieces == {k \in 1..Len(bld.pieces) : IsWallName(bld.pieces[k].name) \/ bld.pieces[k].name = "floor"}

\* the vertices of the M and L commands of a path, in order
PathVertices(d) ==
    LET ml == SelectSeq(d, LAMBDA c : c.c # "Z")
    IN  [k \in 1..Len(ml) |-> <<ml[k].x, ml[k].y>>]

EndsWithZ(d) == Len(d) > 0 /\ d[Len(d)].c = "Z"

\* the polygon the path draws: its vertices, without the last one when the
\* path returns to its start by itself (otherwise Z draws the closing segment)
Polygon(d) ==
    LET v == PathVertices(d)
    IN  IF Len(v) > 1 /\ v[Len(v)] = v[1] THEN SubSeq(v, 1, Len(v) - 1) ELSE v

\* segment k of a polygon runs from vertex k to the next one, cyclically
SegFrom(v, k) == v[k]
SegTo(v, k) == v[(k % Len(v)) + 1]

\* the box two axis-parallel segments have in common: <<x0, x1, y0, y1>>
CommonBox(v, i, j) ==
    << Max(Min(SegFrom(v, i)[1], SegTo(v, i)[1]), Min(SegFrom(v, j)[1], SegTo(v, j)[1])),
       Min(Max(SegFrom(v, i)[1], SegTo(v, i)[1]), Max(SegFrom(v, j)[1], SegTo(v, j)[1])),
       Max(Min(SegFrom(v, i)[2], SegTo(v, i)[2]), Min(SegFrom(v, j)[2], SegTo(v, j)[2])),
       Min(Max(SegFrom(v, i)[2], SegTo(v, i)[2]), Max(SegFrom(v, j)[2], SegTo(v, j)[2])) >>

SegsTouch(v, i, j) ==
    LET b == CommonBox(v, i, j) IN b[1] <= b[2] /\ b[3] <= b[4]

\* they share more than one point
SegsOverlap(v, i, j) ==
    LET b == CommonBox(v, i, j) IN b[1] <= b[2] /\ b[3] <= b[4] /\ (b[1] < b[2] \/ b[3] < b[4])

SegsAdjacent(v, i, j) == j = i + 1 \/ (i = 1 /\ j = Len(v))

\* no two segments cross, touch or run over each other; neighbours share
\* exactly their common vertex
SimplePolygon(v) ==
    \A i \in 1..Len(v) : \A j \in (i + 1)..Len(v) :
        IF SegsAdjacent(v, i, j) THEN ~ SegsOverlap(v, i, j) ELSE ~ SegsTouch(v, i, j)

\* both features of an edge of length e lie within [margin, e - margin]
\* and do not overlap
FeaturesFit(e, kerf) ==
    MIN_EDGE_MARGIN_MM + finger_feature_w_draw(kerf) <= e - MIN_EDGE_MARGIN_MM - finger_feature_w_draw(kerf)

\* the y coordinates of the vertices lying on the line x = c (axis 1), or
\* the x coordinates of those on y = c (axis 2), in path order
AlongLine(v, axis, c) ==
    LET on == SelectSeq(v, LAMBDA q : q[axis] = c)
    IN  [k \in 1..Len(on) |-> on[k][3 - axis]]

NonDecreasing(q) == \A k \in 1..(Len(q) - 1) : q[k] <= q[k + 1]
NonIncreasing(q) == \A k \in 1..(Len(q) - 1) : q[k] >= q[k + 1]

\* C6: whenever the two features of every edge fit between the margins
\* without overlapping, the outline of each wall and of the floor is a simple
\* polygon (no crossing, no segment drawn over another), and the vertices on
\* the right edge advance top to bottom and those on the left edge bottom to top.
C6_OutlinesSimple ==
    OutlinesDone =>
        \A k \in JointPieces :
            LET p == bld.pieces[k]
                v == PathVertices(p.outline.d)
            IN  (FeaturesFit(p.base_w, bld.params.kerf) /\ FeaturesFit(p.base_h, bld.params.kerf))
                => /\ SimplePolygon(Polygon(p.outline.d))
                   /\ NonDecreasing(AlongLine(v, 1, p.base_w))
                   /\ NonIncreasing(Tail(AlongLine(v, 1, 0)))

\* the detours of a polygon path on the line axis = c: four consecutive
\* vertices that leave the line, run beside it and come back
Detours(v, axis, c) ==
    {k \in 1..(Len(v) - 3) :
        /\ v[k][axis] = c /\ v[k + 3][axis] = c
        /\ v[k + 1][axis] # c /\ v[k + 2][axis] = v[k + 1][axis]
        /\ v[k + 1][3 - axis] = v[k][3 - axis] /\ v[k + 2][3 - axis] = v[k + 3][3 - axis]}

\* exactly n detours on the line, each of the given signed depth
HasDetours(v, axis, c, n, depth) ==
    /\ Cardinality(Detours(v, axis, c)) = n
    /\ \A k \in Detours(v, axis, c) : v[k + 1][axis] = c + depth

WallDetours(p, kerf) ==
    LET v == PathVertices(p.outline.d)
        tab_d == finger_tab_depth_draw(kerf)
        pocket_d == finger_pocket_depth_draw(kerf)
    IN  /\ HasDetours(v, 2, 0, 0, 0)
        /\ HasDetours(v, 1, p.base_w, 2, tab_d)
        /\ HasDetours(v, 2, p.base_h, 2, tab_d)
        /\ HasDetours(v, 1, 0, 2, pocket_d)

FloorDetours(p, kerf) ==
    LET v == PathVertices(p.outline.d)
        pocket_d == finger_pocket_depth_draw(kerf)
    IN  /\ HasDetours(v, 2, 0, 2, pocket_d)
        /\ HasDetours(v, 1, p.base_w, 2, 0 - pocket_d)
        /\ HasDetours(v, 2, p.base_h, 2, 0 - pocket_d)
        /\ HasDetours(v, 1, 0, 2, pocket_d)

FirstIsLast(d) ==
    LET v == PathVertices(d) IN Len(v) > 0 /\ v[1] = v[Len(v)]

HasTSlot(p) == \E i \in 1..Len(p.cuts) : p.cuts[i].feature \in {"tslot_pocket", "tslot_stem"}
HasClearanceHole(p) == \E i \in 1..Len(p.cuts) : p.cuts[i].type = "circle"

\* C8: after the fastener stage no panel carries both a T-slot (pocket and
\* stem) and a circular clearance hole.
C8_NeverBothFasteners ==
    FastenersDone =>
        \A k \in 1..Len(bld.pieces) : ~ (HasTSlot(bld.pieces[k]) /\ HasClearanceHole(bld.pieces[k]))

(***************************************************************************)
(* main.py: the prompt loop, and the scripts that call validate_inputs and *)
(* generate_svg themselves                                                 *)
(***************************************************************************)

\* re-prompts explored
MaxIter == 1

NoFitPrecheck == "Parts do not fit on one 12x18 sheet. Please re-enter dimensions."
NoFitGenerate == "Parts do not fit on one 12x18 sheet (packing failed)."

\* a mutation of MainAtPrompt: after an error the loop does not start over
MainAtPromptGoesOn(caller, iter, error) ==
    [pc |-> IF error = "" THEN "prompt" ELSE "generated", caller |-> caller,
     iter |-> iter, error |-> error,
     inputs |-> <<>>, params |-> <<>>, raised |-> FALSE, svg |-> <<>>,
     to_svg_calls |-> 0, written |-> FALSE, file |-> <<>>]

\* the state at a prompt of iteration `iter`, `error` being what the last
\* iteration printed
MainAtPrompt(caller, iter, error) ==
    [pc |-> "prompt", caller |-> caller, iter |-> iter, error |-> error,
     inputs |-> <<>>, params |-> <<>>, raised |-> FALSE, svg |-> <<>>,
     to_svg_calls |-> 0, written |-> FALSE, file |-> <<>>]

\* the dimension and divider answers
BaseAnswers ==
    UNION { {build_base_inputs(l, w, h, n, pos) : pos \in DividerAnswers(n)} :
              l \in InLengths, w \in InWidths, h \in InHeights, n \in 0..2 }

\* what shelf_pack reads of the pieces it is given: name, w and h
PackView(pieces) ==
    [k \in 1..Len(pieces) |-> [name |-> pieces[k].name, w |-> pieces[k].w, h |-> pieces[k].h]]

\* generate_svg lines 54-55: the pieces are built and shelf_pack is entered
GenerateSvgCall(params) ==
    PackCall(PackView(build_pieces(params)), SHEET_W_MM, SHEET_H_MM, PART_GAP_MM)

\* main lines 70-88: the prompts, the pre-validation, build_pieces and the
\* call of shelf_pack; a ValueError of validate_inputs goes back to prompting
MainPrompt ==
    /\ mn.pc = "prompt" /\ mn.caller = "main"
    /\ mn.iter <= MaxIter
    /\ \E base_inputs \in BaseAnswers :
          LET res == validate_inputs(base_inputs)
          IN  IF ~ res.ok
              THEN /\ mn' = MainAtPrompt("main", mn.iter + 1, res.error)
                   /\ pack' = PackIdle
              ELSE /\ mn' = [mn EXCEPT !.pc = "precheck", !.error = "",
                                       !.inputs = <<base_inputs>>, !.params = <<res.params>>]
                   /\ pack' = PackCall(PackView(build_pieces(res.params)),
                                       SHEET_W_MM, SHEET_H_MM, PART_GAP_MM)
    /\ UNCHANGED <<frac, font, bld, val, krf>>

\* main lines 89-91: the fit check
MainPrecheckResult ==
    /\ mn.pc = "precheck" /\ pack.pc = "returned"
    /\ IF pack.ret = None
       THEN mn' = MainAtPrompt("main", mn.iter + 1, NoFitPrecheck)
       ELSE mn' = [mn EXCEPT !.pc = "decor"]
    /\ pack' = PackIdle
    /\ UNCHANGED <<frac, font, bld, val, krf>>

\* main lines 98-113: the decoration prompts, the final validation and the
\* call of generate_svg
MainDecorate ==
    /\ mn.pc = "decor"
    /\ \E dec \in Decorations :
          LET inputs == [mn.inputs[1] EXCEPT !.text = dec.text, !.fractal = dec.fractal,
                                             !.content = dec.content]
              res == validate_inputs(inputs)
          IN  IF ~ res.ok
              THEN /\ mn' = MainAtPrompt("main", mn.iter + 1, res.error)
                   /\ pack' = PackIdle
              ELSE /\ mn' = [mn EXCEPT !.pc = "generate", !.inputs = <<inputs>>,
                                       !.params = <<res.params>>]
                   /\ pack' = GenerateSvgCall(res.params)
    /\ UNCHANGED <<frac, font, bld, val, krf>>

\* generate_svg lines 56-58: raise, or render and return
GenerateSvgReturn ==
    /\ mn.pc = "generate" /\ pack.pc = "returned"
    /\ IF pack.ret = None
       THEN mn' = [mn EXCEPT !.pc = "generated", !.raised = TRUE, !.error = NoFitGenerate]
       ELSE mn' = [mn EXCEPT !.pc = "generated", !.raised = FALSE,
                             !.svg = <<to_svg(build_pieces(mn.params[1]), pack.ret,
                                              SHEET_W_MM, SHEET_H_MM)>>,
                             !.to_svg_calls = @ + 1]
    /\ pack' = PackIdle
    /\ UNCHANGED <<frac, font, bld, val, krf>>

\* main lines 114-124: the except branch, or the file is written and the
\* loop left
MainFinalResult ==
    /\ mn.pc = "generated" /\ mn.caller = "main"
    /\ IF mn.raised
       THEN mn' = MainAtPrompt("main", mn.iter + 1, mn.error)
       ELSE mn' = [mn EXCEPT !.pc = "done", !.written = TRUE, !.file = mn.svg]
    /\ UNCHANGED <<pack, frac, font, bld, val, krf>>

\* a script: params = validate_inputs(inputs); svg = generate_svg(params)
ScriptRun ==
    /\ mn.pc = "prompt" /\ mn.caller = "script"
    /\ \E base_inputs \in BaseAnswers, dec \in Decorations :
          LET inputs == [base_inputs EXCEPT !.text = dec.text, !.fractal = dec.fractal,
                                            !.content = dec.content]
              res == validate_inputs(inputs)
          IN  IF ~ res.ok
              THEN /\ mn' = [mn EXCEPT !.pc = "done", !.raised = TRUE, !.error = res.error]
                   /\ pack' = PackIdle
              ELSE /\ mn' = [mn EXCEPT !.pc = "generate", !.inputs = <<inputs>>,
                                       !.params = <<res.params>>]
                   /\ pack' = GenerateSvgCall(res.params)
    /\ UNCHANGED <<frac, font, bld, val, krf>>

\* the script writes its drawing to a file, or prints the ValueError
ScriptResult ==
    /\ mn.pc = "generated" /\ mn.caller = "script"
    /\ IF mn.raised
       THEN mn' = [mn EXCEPT !.pc = "done"]
       ELSE mn' = [mn EXCEPT !.pc = "done", !.written = TRUE, !.file = mn.svg]
    /\ UNCHANGED <<pack, frac, font, bld, val, krf>>

InitMain ==
    /\ \E caller \in {"main", "script"} : mn = MainAtPrompt(caller, 0, "")
    /\ pack = PackIdle
    /\ frac = FracIdle
    /\ font = FontIdle
    /\ bld = BuildIdle
    /\ val = ValIdle
    /\ krf = KerfIdle

NextMain ==
    \/ MainPrompt \/ MainPrecheckResult \/ MainDecorate \/ MainFinalResult
    \/ GenerateSvgReturn \/ ScriptRun \/ ScriptResult
    \/ PackSort \/ PackIterate \/ PackReturn

SpecMain == InitMain /\ [][NextMain]_vars

(***************************************************************************)
(* validate_inputs on its own                                              *)
(***************************************************************************)

\* validate_inputs(inputs) is called and returns or raises
ValidateCall ==
    /\ val.pc = "call"
    /\ val' = [pc |-> "returned", inputs |-> val.inputs, result |-> validate_inputs(val.inputs)]
    /\ UNCHANGED <<pack, mn, frac, font, bld, krf>>

InitValidate ==
    /\ \E base_inputs \in BaseAnswers, dec \in Decorations :
          val = [pc |-> "call",
                 inputs |-> [base_inputs EXCEPT !.text = dec.text, !.fractal = dec.fractal,
                                                !.content = dec.content]]
    /\ pack = PackIdle
    /\ mn = MainIdle
    /\ frac = FracIdle
    /\ font = FontIdle
    /\ bld = BuildIdle
    /\ krf = KerfIdle

NextValidate == ValidateCall

SpecValidate == InitValidate /\ [][NextValidate]_vars

\* the dimension and wall checks pass: the same inputs without dividers are accepted
DimensionsAccepted(inputs) ==
    validate_inputs([inputs EXCEPT !.numDividers = 0, !.dividerPos = <<>>]).ok

\* the divider positions, in mm along the interior length, are strictly
\* increasing, a minimum gap apart, and a minimum gap from both interior walls
DividerConfigOk(inputs) ==
    LET pos == [k \in 1..inputs.numDividers |-> inches_to_mm(inputs.dividerPos[k])]
        L_in == inches_to_mm(inputs.length) - 2 * T_MM
    IN  /\ \A k \in 1..Len(pos) :
              pos[k] >= DIVIDER_MIN_GAP_MM /\ pos[k] <= L_in - DIVIDER_MIN_GAP_MM
        /\ Len(pos) = 2 => (pos[1] < pos[2] /\ pos[2] - pos[1] >= DIVIDER_MIN_GAP_MM)

\* C5: for inputs whose dimensions and wall settings are valid,
\* validate_inputs accepts exactly when the divider positions are strictly
\* increasing, at least DIVIDER_MIN_GAP_MM apart and at least
\* DIVIDER_MIN_GAP_MM from both interior walls along the interior length.
C5_DividersAcceptedIffAlongLength ==
    (val.pc = "returned" /\ DimensionsAccepted(val.inputs))
        => (val.result.ok <=> DividerConfigOk(val.inputs))

(***************************************************************************)
(* Properties of packing failure                                           *)
(***************************************************************************)

\* areas in units of 0.01 mm^2: the panel sizes explored are whole tenths
\* of a millimetre
Area(w, h) == (w \div 1000) * (h \div 1000)

RECURSIVE TotalArea(_)
TotalArea(pieces) ==
    IF pieces = <<>> THEN 0
    ELSE Area(Head(pieces).w, Head(pieces).h) + TotalArea(Tail(pieces))

\* C3: whenever the summed bounding-box area of the panels build_pieces
\* produced exceeds the sheet area, shelf_pack returns None, and
\* generate_svg raises instead of returning a drawing.
C3_AreaForcesFailure ==
    /\ (pack.pc = "returned" /\ TotalArea(pack.pieces) > Area(pack.sheet_w, pack.sheet_h))
          => pack.ret = None
    /\ (mn.pc = "generated"
        /\ TotalArea(build_pieces(mn.params[1])) > Area(SHEET_W_MM, SHEET_H_MM))
          => (mn.raised /\ mn.svg = <<>>)

\* the height of the sorted item j
ItemH(j) == pack.items[j].h

\* shelf_pack has returned: None exactly at the first panel, in packing
\* order, with y + h + gap > sheet_h, every earlier panel having been placed
\* below that limit; otherwise a placement for every panel, none beyond it
PackAllOrNothing ==
    pack.pc = "returned" =>
        IF pack.ret = None
        THEN /\ pack.i <= Len(pack.items)
             /\ pack.st.y + ItemH(pack.i) + pack.gap > pack.sheet_h
             /\ Len(pack.st.placed) = pack.i - 1
             /\ \A j \in 1..(pack.i - 1) :
                   /\ pack.st.placed[j].name = pack.items[j].name
                   /\ pack.st.placed[j].y + ItemH(j) + pack.gap <= pack.sheet_h
        ELSE /\ Len(pack.ret) = Len(pack.pieces)
             /\ \A j \in 1..Len(pack.ret) :
                   /\ pack.ret[j].name = pack.items[j].name
                   /\ pack.ret[j].y + ItemH(j) + pack.gap <= pack.sheet_h

\* generate_svg raised: to_svg was not called and there is no drawing;
\* a file is written only from a drawing generate_svg returned
NoDrawingOnFailure ==
    /\ (mn.pc = "generated" /\ mn.raised)
          => (mn.svg = <<>> /\ mn.to_svg_calls = 0 /\ ~ mn.written /\ mn.error = NoFitGenerate)
    /\ mn.pc \in {"prompt", "precheck", "decor", "generate"}
          => (mn.svg = <<>> /\ mn.to_svg_calls = 0 /\ ~ mn.written /\ mn.file = <<>>)
    /\ mn.written
          => (mn.pc = "done" /\ ~ mn.raised /\ mn.to_svg_calls = 1 /\ mn.svg # <<>> /\ mn.file = mn.svg)

\* a step of main that sees the packing fail, in the fit check or through
\* generate_svg's ValueError, goes back to the prompt of the next iteration
\* with nothing written
FailureReprompts ==
    (\/ (mn.pc = "precheck" /\ pack.pc = "returned" /\ pack.ret = None)
     \/ (mn.pc = "generated" /\ mn.caller = "main" /\ mn.raised))
        => (mn'.pc = "prompt" /\ mn'.iter = mn.iter + 1 /\ ~ mn'.written /\ mn'.file = <<>>)

\* the step in which generate_svg returns: it raises exactly when shelf_pack
\* returned None
RaisesIffNone ==
    (mn.pc = "generate" /\ pack.pc = "returned")
        => (mn'.raised <=> pack.ret = None)

\* C4: shelf_pack returns None at the first panel whose row position gives
\* y + h + gap > sheet_h and never a partial list; generate_svg then raises
\* without calling to_svg; main writes no file for that request and goes
\* back to prompting.
C4_AllOrNothing ==
    /\ [](PackAllOrNothing /\ NoDrawingOnFailure)
    /\ [][FailureReprompts /\ RaisesIffNone]_vars

\* shelf_pack has returned None inside generate_svg after placing some panels
C4_Witness ==
    /\ mn.pc = "generate"
    /\ pack.pc = "returned" /\ pack.ret = None
    /\ Len(pack.st.placed) >= 2

(***************************************************************************)
(* The kerf conversions of constants.py on their own                       *)
(***************************************************************************)

\* conversions applied in a row
MaxOps == 2
\* physical targets and kerfs, in model units
KerfTargets == {25000, 30000, 30800, 31000, 48252, 120000}
Kerfs == {0, 500, 1000, 2000}

\* the drawn sizes the helpers give for one kerf
DerivedDrawSizes(kerf_mm) ==
    [divider_slot_draw_w |-> divider_slot_draw_w(kerf_mm),
     nut_pocket_draw_w |-> nut_pocket_draw_w(kerf_mm),
     screw_hole_draw_d |-> screw_hole_draw_d(kerf_mm),
     tab_slot_draw_w |-> tab_slot_draw_w(kerf_mm),
     wall_bottom_slot_draw_depth |-> wall_bottom_slot_draw_depth(kerf_mm),
     floor_tab_len_draw |-> floor_tab_len_draw(kerf_mm)]

\* value = internal_cut_draw_dim(value, kerf)
KerfInternal ==
    /\ krf.pc = "ready" /\ Len(krf.ops) < MaxOps
    /\ krf' = [krf EXCEPT !.value = internal_cut_draw_dim(krf.value, krf.kerf),
                          !.ops = Append(@, "internal")]
    /\ UNCHANGED <<pack, mn, frac, font, bld, val>>

\* value = external_cut_draw_dim(value, kerf)
KerfExternal ==
    /\ krf.pc = "ready" /\ Len(krf.ops) < MaxOps
    /\ krf' = [krf EXCEPT !.value = external_cut_draw_dim(krf.value, krf.kerf),
                          !.ops = Append(@, "external")]
    /\ UNCHANGED <<pack, mn, frac, font, bld, val>>

\* the derived helpers are called with the kerf
KerfDerived ==
    /\ krf.pc = "ready" /\ krf.derived = <<>>
    /\ krf' = [krf EXCEPT !.derived = <<DerivedDrawSizes(krf.kerf)>>]
    /\ UNCHANGED <<pack, mn, frac, font, bld, val>>

InitKerf ==
    /\ \E p \in KerfTargets, k \in Kerfs :
          krf = [pc |-> "ready", p |-> p, kerf |-> k, value |-> p, ops |-> <<>>, derived |-> <<>>]
    /\ pack = PackIdle
    /\ mn = MainIdle
    /\ frac = FracIdle
    /\ font = FontIdle
    /\ bld = BuildIdle
    /\ val = ValIdle

NextKerf == KerfInternal \/ KerfExternal \/ KerfDerived

SpecKerf == InitKerf /\ [][NextKerf]_vars

\* C11: one application of internal_cut_draw_dim gives p - k, one of
\* external_cut_draw_dim gives p + k, and the derived draw sizes are
\* (T + divider clearance) - k, (nut width + pocket clearance) - k,
\* screw diameter - k, (T + tab clearance) - k, T - k and T + k.
C11_KerfPrimitives ==
    /\ krf.pc = "ready" /\ krf.ops = <<"internal">> => krf.value = krf.p - krf.kerf
    /\ krf.pc = "ready" /\ krf.ops = <<"external">> => krf.value = krf.p + krf.kerf
    /\ (krf.pc = "ready" /\ krf.derived # <<>>) =>
          LET d == krf.derived[1]
              k == krf.kerf
          IN  /\ d.divider_slot_draw_w = (T_MM + DIVIDER_SLOT_CLEARANCE_MM) - k
              /\ d.nut_pocket_draw_w = (NUT_WIDTH_MM + NUT_POCKET_CLEARANCE_MM) - k
              /\ d.screw_hole_draw_d = SCREW_HOLE_DIAMETER_MM - k
              /\ d.tab_slot_draw_w = (T_MM + TAB_SLOT_CLEARANCE_MM) - k
              /\ d.wall_bottom_slot_draw_depth = T_MM - k
              /\ d.floor_tab_len_draw = T_MM + k

\* a positive kerf, one conversion applied and the derived sizes computed
C11_Witness ==
    /\ krf.pc = "ready" /\ krf.kerf > 0
    /\ krf.ops = <<"internal">> /\ krf.value < krf.p
    /\ krf.derived # <<>>

RoundTripped ==
    /\ krf.pc = "ready"
    /\ Len(krf.ops) >= 2
    /\ SubSeq(krf.ops, 1, 2) \in {<<"external", "internal">>, <<"internal", "external">>}

\* the value after the first two conversions
ValueAfterTwo ==
    IF Len(krf.ops) = 2 THEN krf.value
    ELSE IF krf.ops[1] = "external"
         THEN internal_cut_draw_dim(external_cut_draw_dim(krf.p, krf.kerf), krf.kerf)
         ELSE external_cut_draw_dim(internal_cut_draw_dim(krf.p, krf.kerf), krf.kerf)

CutsOf(name, feature) ==
    SelectSeq(find_piece(bld.pieces, name).cuts, LAMBDA c : c.feature = feature)

\* twice the centre y of a rectangle
RectCentreY2(r) == 2 * r.y + r.h

\* twice the corner-centre y of the finger-joint features of a wall of height
\* H: margin + w/2 and H - margin - w/2
CornerY2(H, kerf) ==
    << 2 * MIN_EDGE_MARGIN_MM + finger_feature_w_draw(kerf),
       2 * H - 2 * MIN_EDGE_MARGIN_MM - finger_feature_w_draw(kerf) >>

\* C13: the fastener stage walks front->right, right->back, back->left,
\* left->front; for each adjacency and each of the two corner-centre ys it
\* appends, in this order, a square pocket and a stem to the first wall and a
\* circle to the second, all three centred on that y; in the end every wall
\* carries exactly the two T-slots of the adjacency it is first in and the
\* two left-edge holes of the adjacency it is second in.
C13_ChainFasteners ==
    FastenersDone =>
        LET chain == << <<"wall_front", "wall_right">>, <<"wall_right", "wall_back">>,
                        <<"wall_back", "wall_left">>, <<"wall_left", "wall_front">> >>
            y2 == CornerY2(bld.params.H_out, bld.params.kerf)
        IN  \A k \in 1..4 :
              /\ Len(CutsOf(chain[k][1], "tslot_pocket")) = 2
              /\ Len(CutsOf(chain[k][1], "tslot_stem")) = 2
              /\ Len(CutsOf(chain[k][2], "clearance_hole")) = 2
              /\ \A i \in 1..2 :
                    LET at == 6 * (k - 1) + 3 * (i - 1)
                        pocket == bld.ops[at + 1]
                        stem == bld.ops[at + 2]
                        hole == bld.ops[at + 3]
                    IN  /\ pocket[1] = chain[k][1] /\ stem[1] = chain[k][1] /\ hole[1] = chain[k][2]
                        /\ pocket[2].type = "rect" /\ pocket[2].feature = "tslot_pocket"
                        /\ pocket[2].w = pocket[2].h
                        /\ stem[2].type = "rect" /\ stem[2].feature = "tslot_stem"
                        /\ hole[2].type = "circle" /\ hole[2].feature = "clearance_hole"
                        /\ RectCentreY2(pocket[2]) = y2[i]
                        /\ RectCentreY2(stem[2]) = y2[i]
                        /\ 2 * hole[2].cy = y2[i]
                        /\ CutsOf(chain[k][1], "tslot_pocket")[i] = pocket[2]
                        /\ CutsOf(chain[k][1], "tslot_stem")[i] = stem[2]
                        /\ CutsOf(chain[k][2], "clearance_hole")[i] = hole[2]

\* the fastener stage has run on a box with dividers
C13_Witness ==
    /\ FastenersDone
    /\ Len(bld.ops) = 48
    /\ bld.params.num_dividers = 2
    /\ Len(CutsOf("wall_front", "tslot_pocket")) = 2

(***************************************************************************)
(* Properties of the text engraves and their rendering                     *)
(***************************************************************************)

\* generate_svg has returned a drawing
DrawingReturned == mn.pc \in {"generated", "done"} /\ mn.svg # <<>>

\* the number of elements to_svg writes for a piece
ShapeCount(p) == 1 + Len(p.cuts) + Len(p.engraves)

\* the number of body elements before those of piece k: the background
\* rectangle and the elements of the earlier pieces
RECURSIVE ElementsBefore(_, _)
ElementsBefore(pieces, k) ==
    IF k = 1 THEN 1 ELSE ElementsBefore(pieces, k - 1) + ShapeCount(pieces[k - 1])

\* the rotation the wall calls for
WallRotation(name) ==
    IF name = "wall_left" THEN 90 ELSE IF name = "wall_right" THEN 0 - 90 ELSE 0

\* C14: in every drawing, each text engrave of wall_left has rotation 90, of
\* wall_right -90, of wall_front and wall_back 0; and its element is a group
\* with translate(x, y) rotate(r) around a text at (0, 0) when the rotation
\* is non-zero, and a bare text element at (x, y) when it is zero.
C14_TextRotation ==
    DrawingReturned =>
        LET pieces == build_pieces(mn.params[1])
            body == mn.svg[1].body
        IN  \A k \in 1..4 :
              LET p == pieces[k]
                  first == ElementsBefore(pieces, k)
                  offset == body[first + 1].translate
              IN  \A j \in 1..Len(p.engraves) :
                    LET e == p.engraves[j]
                        el == body[first + 1 + Len(p.cuts) + j]
                        x == e.x + offset[1]
                        y == e.y + offset[2]
                    IN  e.type = "text" =>
                          /\ e.rotation = WallRotation(p.name)
                          /\ IF e.rotation # 0
                             THEN /\ el.tag = "g"
                                  /\ el.translate = <<x, y>> /\ el.rotate = e.rotation
                                  /\ el.child.tag = "text"
                                  /\ el.child.x = 0 /\ el.child.y = 0
                                  /\ el.child.text = escape_xml(e.text)
                             ELSE /\ el.tag = "text"
                                  /\ el.x = x /\ el.y = y
                                  /\ el.text = escape_xml(e.text)

\* a drawing with text on the front and on the left wall
C14_Witness ==
    /\ DrawingReturned
    /\ mn.params[1].wall_mode["left"] = "text" /\ mn.params[1].wall_mode["front"] = "text"
    /\ \E j \in 1..Len(mn.svg[1].body) :
          mn.svg[1].body[j].tag = "g" /\ mn.svg[1].body[j].rotate = 90
    /\ \E j \in 1..Len(mn.svg[1].body) : mn.svg[1].body[j].tag = "text"

\* a drawing with text rotated the other way on the right wall
C14_WitnessRight ==
    /\ DrawingReturned
    /\ \E j \in 1..Len(mn.svg[1].body) :
          mn.svg[1].body[j].tag = "g" /\ mn.svg[1].body[j].rotate = 0 - 90

(***************************************************************************)
(* The core runs on validated parameters only                              *)
(***************************************************************************)

\* build_pieces and shelf_pack have been entered, or generate_svg has
\* returned a drawing
CoreInvoked == pack.pc # "idle" \/ mn.svg # <<>>

\* the parameters in use are what validate_inputs returned for the inputs
\* of this iteration
ParamsValidated ==
    /\ mn.inputs # <<>>
    /\ validate_inputs(mn.inputs[1]).ok
    /\ mn.params = <<validate_inputs(mn.inputs[1]).params>>
    /\ pack.pc # "idle" => pack.pieces = PackView(build_pieces(mn.params[1]))

\* the message is one validate_inputs raises
ValidationError(msg) == msg \notin {"", NoFitPrecheck, NoFitGenerate}

\* validate_inputs raised in this step of main
RejectedStep ==
    /\ mn.caller = "main" /\ mn.pc \in {"prompt", "decor"}
    /\ mn' # mn /\ ValidationError(mn'.error)

\* C15: whenever the core is running or has produced a drawing, its
\* parameters are those validate_inputs returned for the inputs of the same
\* iteration; and a step in which validate_inputs raises enters no core
\* stage and takes main back to the prompts of the next iteration.
C15_CoreOnlyAfterValidation ==
    /\ [](CoreInvoked => ParamsValidated)
    /\ [][RejectedStep =>
             /\ mn'.pc = "prompt" /\ mn'.iter = mn.iter + 1
             /\ pack'.pc = "idle"
             /\ mn'.inputs = <<>> /\ mn'.params = <<>> /\ mn'.svg = <<>>]_vars

\* main is back at the prompts after two dividers were too close together
C15_Witness ==
    /\ mn.caller = "main" /\ mn.pc = "prompt" /\ mn.iter = 1
    /\ mn.error = "Dividers too close to each other (violates minimum gap)."
    /\ pack.pc = "idle"

(***************************************************************************)
(* The panel list of build_pieces                                          *)
(***************************************************************************)

\* build_pieces has returned
Built == bld.pc = "built"

\* the names in the order of the list
PanelNames(pieces) == [k \in 1..Len(pieces) |-> pieces[k].name]

\* the names the list is to have for n dividers
ExpectedNames(n) ==
    <<"wall_front", "wall_back", "wall_left", "wall_right", "floor">>
    \o (IF n >= 1 THEN <<"divider_1">> ELSE <<>>)
    \o (IF n >= 2 THEN <<"divider_2">> ELSE <<>>)

\* a divider panel of the nominal size with a plain rectangle as outline
PlainDivider(p, params) ==
    /\ p.base_w = params.W_in /\ p.base_h = params.H_out - params.t
    /\ p.w = p.base_w /\ p.h = p.base_h
    /\ p.outline.type = "rect"
    /\ p.outline.x = 0 /\ p.outline.y = 0
    /\ p.outline.w = p.base_w /\ p.outline.h = p.base_h

\* C16: for n dividers build_pieces returns 5 + n panels named wall_front,
\* wall_back, wall_left, wall_right, floor, divider_1..divider_n in this
\* order, all names distinct; exactly n of them are dividers, each of size
\* W_in by H_out - thickness with a plain rectangular outline.
C16_PanelList ==
    Built =>
        LET n == bld.params.num_dividers
            names == PanelNames(bld.pieces)
            dividers == {k \in 1..Len(bld.pieces) : IsDividerName(bld.pieces[k].name)}
        IN  /\ n \in {0, 1, 2}
            /\ Len(bld.pieces) = 5 + n
            /\ names = ExpectedNames(n)
            /\ \A i, j \in 1..Len(names) : i # j => names[i] # names[j]
            /\ Cardinality(dividers) = n
            /\ \A k \in dividers : PlainDivider(bld.pieces[k], bld.params)

\* a box with two dividers has been built
C16_Witness ==
    /\ Built
    /\ bld.params.num_dividers = 2
    /\ Len(bld.pieces) = 7
    /\ bld.pieces[7].name = "divider_2"

\* boxes with no and with one divider have been built
C16_WitnessNone == Built /\ bld.params.num_dividers = 0 /\ Len(bld.pieces) = 5
C16_WitnessOne == Built /\ bld.params.num_dividers = 1 /\ Len(bld.pieces) = 6

(***************************************************************************)
(* The number of engraves per panel                                        *)
(***************************************************************************)

\* the safe width and height of a wall are both positive
SafeAreaPositive(p, params) ==
    LET b == calculate_engraving_safe_bounds(p.name, p, params)
    IN  b[3] - b[1] > 0 /\ b[4] - b[2] > 0

\* all engraves of the panel have the type
AllOfType(p, type) == \A j \in 1..Len(p.engraves) : p.engraves[j].type = type

\* the engraves wall k is to have
EngravesAsMode(p, params, mode) ==
    IF mode = "none" \/ ~ SafeAreaPositive(p, params)
    THEN p.engraves = <<>>
    ELSE IF mode = "text"
    THEN Len(p.engraves) = 1 /\ AllOfType(p, "text")
    ELSE mode = "fractal" /\ Len(p.engraves) = 81 /\ AllOfType(p, "path")

\* C17: build_pieces returns for every validated box, and in what it
\* returns a wall in mode none has no engrave, a wall in mode text with a
\* positive safe width and height has exactly one text engrave, a wall in
\* mode fractal with a positive safe width and height has exactly 3^4 path
\* engraves, a wall whose safe width or height is not positive has none,
\* and the floor and the dividers have none.
C17_EngraveCounts ==
    Built =>
        /\ \A k \in 1..4 :
              EngravesAsMode(bld.pieces[k], bld.params, bld.params.wall_mode[WallKeys[k]])
        /\ \A k \in 5..Len(bld.pieces) : bld.pieces[k].engraves = <<>>

\* a box whose safe area is positive, with a text wall and a fractal wall
C17_Witness ==
    /\ Built
    /\ bld.params.wall_mode["front"] = "fractal" /\ Len(bld.pieces[1].engraves) = 81
    /\ bld.params.wall_mode["right"] = "text" /\ Len(bld.pieces[4].engraves) = 1
    /\ bld.params.wall_mode["left"] = "none"
    /\ bld.params.num_dividers >= 1

\* a box too low for a safe area: its text and fractal walls stay empty
C17_WitnessSkipped ==
    /\ Built
    /\ bld.params.wall_mode["front"] = "fractal" /\ bld.params.wall_mode["right"] = "text"
    /\ ~ SafeAreaPositive(bld.pieces[1], bld.params)
    /\ ~ SafeAreaPositive(bld.pieces[4], bld.params)
    /\ bld.pieces[1].engraves = <<>> /\ bld.pieces[4].engraves = <<>>

(***************************************************************************)
(* The order of packing                                                    *)
(***************************************************************************)

\* the position of the panel in the list shelf_pack was given
InputPosition(pieces, name) == CHOOSE k \in 1..Len(pieces) : pieces[k].name = name

\* the sort has run
PackSorted == pack.pc \in {"loop", "returned"}

\* items holds every input panel once
IsPermutation(items, pieces) ==
    /\ Len(items) = Len(pieces)
    /\ \A k \in 1..Len(pieces) : \E i \in 1..Len(items) : items[i] = pieces[k]

\* taller panels first, panels of one height in input order
DescendingStable(items, pieces) ==
    \A i, j \in 1..Len(items) :
        i < j =>
            /\ items[i].h >= items[j].h
            /\ items[i].h = items[j].h =>
                  InputPosition(pieces, items[i].name) < InputPosition(pieces, items[j].name)

\* the placements made so far are those of the first panels of items, in order
PlacedInItemOrder(placed, items) ==
    /\ Len(placed) <= Len(items)
    /\ \A i \in 1..Len(placed) : placed[i].name = items[i].name /\ placed[i].rot = 0

\* C18: shelf_pack places the panels in order of descending height, panels
\* of equal height in their input order, every placement with rot 0; and
\* what it returns is determined by the panel list, the sheet and the gap.
C18_StableOrder ==
    /\ PackSorted =>
          /\ IsPermutation(pack.items, pack.pieces)
          /\ DescendingStable(pack.items, pack.pieces)
          /\ PlacedInItemOrder(pack.st.placed, pack.items)
    /\ pack.pc = "returned" =>
          pack.ret = shelf_pack(pack.pieces, pack.sheet_w, pack.sheet_h, pack.gap)
    /\ PackReturnedList => PlacedInItemOrder(pack.ret, pack.items) /\ Len(pack.ret) = Len(pack.items)

\* three panels placed: the tallest was last in the input, the other two
\* are of one height and keep their input order
C18_Witness ==
    /\ PackReturnedList
    /\ Len(pack.pieces) = 3 /\ Len(pack.ret) = 3
    /\ pack.pieces[1].h = pack.pieces[2].h /\ pack.pieces[3].h > pack.pieces[1].h
    /\ pack.ret[1].name = pack.pieces[3].name
    /\ pack.ret[2].name = pack.pieces[1].name
    /\ pack.ret[3].name = pack.pieces[2].name

(***************************************************************************)
(* The order of the stages, as the cut lists record it                     *)
(***************************************************************************)

IsSlotCut(c) == c.feature = "divider_slot"
IsFastenerCut(c) ==
    c.feature \in {"tslot_pocket", "tslot_stem", "clearance_hole", "bottom_tab_hole"}

\* the panels that get divider slots
SlottedPanels ==
    {k \in 1..Len(bld.pieces) : bld.pieces[k].name \in {"wall_front", "wall_back", "floor"}}

\* C19: the fastener stage runs before the divider-slot stage: in the cut
\* lists of wall_front, wall_back and floor every fastener cut comes before
\* every divider-slot cut.
C19_FastenersBeforeSlots ==
    \A k \in SlottedPanels :
        \A i, j \in 1..Len(bld.pieces[k].cuts) :
            IsFastenerCut(bld.pieces[k].cuts[i]) /\ IsSlotCut(bld.pieces[k].cuts[j]) => i < j

\* what build_pieces does: the divider-slot cuts come first
SlotsBeforeFasteners ==
    \A k \in SlottedPanels :
        \A i, j \in 1..Len(bld.pieces[k].cuts) :
            IsSlotCut(bld.pieces[k].cuts[i]) /\ IsFastenerCut(bld.pieces[k].cuts[j]) => i < j

\* a built box whose front wall and floor carry cuts of both kinds
BothKindsOfCuts ==
    /\ Built
    /\ \A k \in SlottedPanels :
          /\ \E i \in 1..Len(bld.pieces[k].cuts) : IsSlotCut(bld.pieces[k].cuts[i])
          /\ \E i \in 1..Len(bld.pieces[k].cuts) : IsFastenerCut(bld.pieces[k].cuts[i])

(***************************************************************************)
(* The text footprint and the text box                                     *)
(***************************************************************************)

\* the text box of a wall for an engrave of the given rotation: 75% by 50%
\* of the safe area, width and height swapped first when rotated
TextBoxOf(p, params, rotation) ==
    LET b == calculate_engraving_safe_bounds(p.name, p, params)
        safe_w == Max(0, b[3] - b[1])
        safe_h == Max(0, b[4] - b[2])
    IN  IF rotation # 0 THEN calculate_text_box_size(safe_h, safe_w)
        ELSE calculate_text_box_size(safe_w, safe_h)

\* the estimated footprint of the engrave fits the text box of its wall
FootprintFits(p, params, e) ==
    LET box == TextBoxOf(p, params, e.rotation)
    IN  TextFits(TextLen(e.text), e.size, box[1], box[2])

\* C20: for every text engrave of a built box, the footprint estimated at
\* the chosen font size (len(text) * size * 0.55 by size * 1.2) fits inside
\* the text box of its wall.
C20_TextFitsBox ==
    Built =>
        \A k \in 1..4 :
            \A j \in 1..Len(bld.pieces[k].engraves) :
                bld.pieces[k].engraves[j].type = "text" =>
                    FootprintFits(bld.pieces[k], bld.params, bld.pieces[k].engraves[j])

\* a text engrave at the minimum font size whose footprint is wider than
\* its text box
TextOverflows ==
    /\ Built
    /\ \E k \in 1..4 :
          \E j \in 1..Len(bld.pieces[k].engraves) :
              /\ bld.pieces[k].engraves[j].type = "text"
              /\ bld.pieces[k].engraves[j].size = MIN_FONT_SIZE_DEFAULT
              /\ ~ FootprintFits(bld.pieces[k], bld.params, bld.pieces[k].engraves[j])

(***************************************************************************)
(* The text footprint and the safe region                                  *)
(***************************************************************************)

\* the estimated width and height of the text, along and across the line
FootprintW(e) == (TextLen(e.text) * e.size * CHAR_WIDTH_RATIO_PCT) \div 100
FootprintH(e) == (e.size * HEIGHT_RATIO_PCT) \div 100

\* twice the extent of the footprint in x and in y on the wall: the text is
\* centred on (e.x, e.y) and turned by e.rotation
FootprintX2(e) == IF e.rotation # 0 THEN FootprintH(e) ELSE FootprintW(e)
FootprintY2(e) == IF e.rotation # 0 THEN FootprintW(e) ELSE FootprintH(e)

\* the footprint lies inside the safe region of the wall
FootprintInSafeRegion(p, params, e) ==
    LET b == calculate_engraving_safe_bounds(p.name, p, params)
    IN  /\ 2 * b[1] <= 2 * e.x - FootprintX2(e)
        /\ 2 * e.x + FootprintX2(e) <= 2 * b[3]
        /\ 2 * b[2] <= 2 * e.y - FootprintY2(e)
        /\ 2 * e.y + FootprintY2(e) <= 2 * b[4]

\* the text engraves of the walls of the box, as <<panel index, engrave index>>
TextEngraves ==
    {ke \in (1..4) \X (1..1) :
        /\ ke[1] <= Len(bld.pieces)
        /\ ke[2] <= Len(bld.pieces[ke[1]].engraves)
        /\ bld.pieces[ke[1]].engraves[ke[2]].type = "text"}

\* C21: for every text engrave whose font size fits its text box, the
\* estimated footprint, centred on the anchor and turned by the rotation,
\* lies inside the safe region of its wall, rotated or not.
C21_FootprintInSafeRegion ==
    Built =>
        \A ke \in TextEngraves :
            LET p == bld.pieces[ke[1]]
                e == p.engraves[ke[2]]
            IN  FootprintFits(p, bld.params, e) => FootprintInSafeRegion(p, bld.params, e)

\* what holds of the code: the rotated texts that fit stay inside
RotatedFootprintInSafeRegion ==
    Built =>
        \A ke \in TextEngraves :
            LET p == bld.pieces[ke[1]]
                e == p.engraves[ke[2]]
            IN  e.rotation # 0 /\ FootprintFits(p, bld.params, e)
                    => FootprintInSafeRegion(p, bld.params, e)

\* an unrotated text that fits its box and reaches below the safe region
UnrotatedTextBelowSafeRegion ==
    /\ Built
    /\ \E ke \in TextEngraves :
          LET p == bld.pieces[ke[1]]
              e == p.engraves[ke[2]]
          IN  /\ e.rotation = 0 /\ FootprintFits(p, bld.params, e)
              /\ 2 * e.y + FootprintH(e) >
                    2 * calculate_engraving_safe_bounds(p.name, p, bld.params)[4]

\* a rotated text that fits its box, inside the safe region
RotatedTextInside ==
    /\ Built
    /\ \E ke \in TextEngraves :
          LET p == bld.pieces[ke[1]]
              e == p.engraves[ke[2]]
          IN  /\ e.rotation # 0 /\ FootprintFits(p, bld.params, e)
              /\ FootprintInSafeRegion(p, bld.params, e)

(***************************************************************************)
(* The safe region and the cuts and joints of its wall                     *)
(***************************************************************************)

\* the safe region as a rectangle
SafeRegion(p, params) ==
    LET b == calculate_engraving_safe_bounds(p.name, p, params)
    IN  Rect(b[1], b[2], b[3] - b[1], b[4] - b[2])

\* the bounding rectangle of a cut
CutBox(c) ==
    IF c.type = "circle" THEN Rect(c.cx - c.r, c.cy - c.r, 2 * c.r, 2 * c.r)
    ELSE Rect(c.x, c.y, c.w, c.h)

\* the rectangle a detour of the outline encloses with its line
DetourBox(v, k) ==
    LET x0 == Min(Min(v[k][1], v[k + 1][1]), Min(v[k + 2][1], v[k + 3][1]))
        x1 == Max(Max(v[k][1], v[k + 1][1]), Max(v[k + 2][1], v[k + 3][1]))
        y0 == Min(Min(v[k][2], v[k + 1][2]), Min(v[k + 2][2], v[k + 3][2]))
        y1 == Max(Max(v[k][2], v[k + 1][2]), Max(v[k + 2][2], v[k + 3][2]))
    IN  Rect(x0, y0, x1 - x0, y1 - y0)

\* all detours of a wall outline, on its four lines
AllDetours(p) ==
    LET v == PathVertices(p.outline.d)
    IN  Detours(v, 2, 0) \cup Detours(v, 1, p.base_w)
        \cup Detours(v, 2, p.base_h) \cup Detours(v, 1, 0)

\* the safe region has a point in common with the interior of the rectangle
SafeRegionMeets(p, params, r) ==
    SafeAreaPositive(p, params) /\ rects_intersect(SafeRegion(p, params), r)

\* no cut selected by `kinds` and no detour of the outline meets the safe region
SafeRegionClear(p, params, kinds) ==
    /\ \A i \in 1..Len(p.cuts) :
          p.cuts[i].feature \in kinds => ~ SafeRegionMeets(p, params, CutBox(p.cuts[i]))
    /\ \A k \in AllDetours(p) :
          ~ SafeRegionMeets(p, params, DetourBox(PathVertices(p.outline.d), k))

FastenerFeatures == {"tslot_pocket", "tslot_stem", "clearance_hole", "bottom_tab_hole"}

\* C22: for every wall of a built box the safe region meets none of the
\* wall's cuts (T-slot pockets and stems, clearance holes, bottom-tab holes,
\* divider slots) and none of the tab and pocket detours of its outline.
C22_SafeRegionClear ==
    Built =>
        \A k \in 1..4 :
            SafeRegionClear(bld.pieces[k], bld.params, FastenerFeatures \cup {"divider_slot"})

\* what holds of the code: the fastener cuts and the detours are avoided
SafeRegionClearOfFasteners ==
    Built => \A k \in 1..4 : SafeRegionClear(bld.pieces[k], bld.params, FastenerFeatures)

\* a divider slot of the front wall runs through its safe region
SlotThroughSafeRegion ==
    /\ Built
    /\ bld.params.num_dividers >= 1
    /\ \E i \in 1..Len(bld.pieces[1].cuts) :
          /\ IsSlotCut(bld.pieces[1].cuts[i])
          /\ SafeRegionMeets(bld.pieces[1], bld.params, CutBox(bld.pieces[1].cuts[i]))

(***************************************************************************)
(* The T-slots of the floor                                                *)
(***************************************************************************)

\* the floor is the fifth panel build_pieces appends
Floor == bld.pieces[5]

\* the positions in the floor's cut list of the cuts of the feature
FloorCuts(feature) == {i \in 1..Len(Floor.cuts) : Floor.cuts[i].feature = feature}

FloorTSlotCuts == FloorCuts("tslot_pocket") \cup FloorCuts("tslot_stem")

\* the pockets whose centre is within reach of the line axis = c: the
\* pocket centre is margin + feature width / 2 away from it
PocketsNearEdge(axis, c, kerf) ==
    {i \in FloorCuts("tslot_pocket") :
        LET centre == IF axis = 1 THEN Floor.cuts[i].x + Floor.cuts[i].w \div 2
                      ELSE Floor.cuts[i].y + Floor.cuts[i].h \div 2
            reach == MIN_EDGE_MARGIN_MM + finger_feature_w_draw(kerf) \div 2
        IN  centre = c + reach \/ centre = c - reach}

\* C23: after the fastener stage the floor carries exactly eight T-slots
\* (eight pockets, eight stems), and no two of these cuts overlap or coincide.
C23_FloorTSlotsDisjoint ==
    FastenersDone =>
        /\ Cardinality(FloorCuts("tslot_pocket")) = 8
        /\ Cardinality(FloorCuts("tslot_stem")) = 8
        /\ \A i, j \in FloorTSlotCuts :
              i # j => ~ rects_intersect(CutBox(Floor.cuts[i]), CutBox(Floor.cuts[j]))

\* what holds of the code: eight pockets and eight stems are appended
FloorHasEightTSlots ==
    FastenersDone =>
        /\ Cardinality(FloorCuts("tslot_pocket")) = 8
        /\ Cardinality(FloorCuts("tslot_stem")) = 8

\* the pockets lie at four places only, each drawn twice
FloorPocketsDoubled ==
    /\ FastenersDone
    /\ Cardinality({CutBox(Floor.cuts[i]) : i \in FloorCuts("tslot_pocket")}) = 4
    /\ \A i \in FloorCuts("tslot_pocket") :
          \E j \in FloorCuts("tslot_pocket") : j # i /\ Floor.cuts[j] = Floor.cuts[i]
    /\ Cardinality(PocketsNearEdge(2, 0, bld.params.kerf)) = 4

(***************************************************************************)
(* The two corner features of an edge                                      *)
(***************************************************************************)

\* the interval [lo, hi] a detour covers along its line
DetourInterval(v, k, axis) ==
    << Min(v[k][3 - axis], v[k + 3][3 - axis]), Max(v[k][3 - axis], v[k + 3][3 - axis]) >>

\* the intervals of the detours of the outline on the line axis = c
DetourIntervals(p, axis, c) ==
    LET v == PathVertices(p.outline.d)
    IN  {DetourInterval(v, k, axis) : k \in Detours(v, axis, c)}

\* the intervals of width w around the two corner centres of an edge
FeatureIntervals(edge_len, w, margin) ==
    LET cs == corner_centers(edge_len, w, margin)
    IN  {<<cs[1] - w \div 2, cs[1] + w \div 2>>, <<cs[2] - w \div 2, cs[2] + w \div 2>>}

\* two intervals with more than a point in common
IntervalsOverlap(a, b) == a[1] < b[2] /\ b[1] < a[2]

\* C24: the two features on the right edge of every wall are centred at
\* margin + w/2 and E - margin - w/2, E being the height of the wall, and
\* do not overlap each other, whatever E is.
C24_CornerFeaturesApart ==
    OutlinesDone =>
        \A k \in 1..4 :
            LET p == bld.pieces[k]
                w == finger_feature_w_draw(bld.params.kerf)
                m == MIN_EDGE_MARGIN_MM
                cs == corner_centers(p.base_h, w, m)
            IN  /\ 2 * cs[1] = 2 * m + w
                /\ 2 * cs[2] = 2 * p.base_h - 2 * m - w
                /\ DetourIntervals(p, 1, p.base_w) = FeatureIntervals(p.base_h, w, m)
                /\ \A a, b \in DetourIntervals(p, 1, p.base_w) : a # b => ~ IntervalsOverlap(a, b)

\* what holds of the code: the centres and the intervals are as stated
CornerFeaturesCentred ==
    OutlinesDone =>
        \A k \in 1..4 :
            LET p == bld.pieces[k]
                w == finger_feature_w_draw(bld.params.kerf)
                m == MIN_EDGE_MARGIN_MM
                cs == corner_centers(p.base_h, w, m)
            IN  /\ 2 * cs[1] = 2 * m + w
                /\ 2 * cs[2] = 2 * p.base_h - 2 * m - w
                /\ DetourIntervals(p, 1, p.base_w) = FeatureIntervals(p.base_h, w, m)

\* a validated box whose walls are too low: the two tabs of the right edge
\* of the front wall overlap
CornerFeaturesOverlap ==
    /\ OutlinesDone
    /\ \E a, b \in DetourIntervals(bld.pieces[1], 1, bld.pieces[1].base_w) :
          a # b /\ IntervalsOverlap(a, b)

(***************************************************************************)
(* The stems of the T-slots                                                *)
(***************************************************************************)

\* the stems of the panel, as positions in its cut list; the pocket of a
\* stem is the cut appended just before it
StemsOf(p) == {i \in 2..Len(p.cuts) : p.cuts[i].feature = "tslot_stem"}

\* the outermost x of the panel: a wall's tabs protrude to the right
OutermostX(p, kerf) ==
    IF IsWallName(p.name) THEN p.base_w + finger_tab_depth_draw(kerf) ELSE p.base_w

\* the stem is clamped to the material between its pocket and the edge
StemClamped(p, i, kerf) ==
    LET stem == p.cuts[i]
        pocket == p.cuts[i - 1]
    IN  /\ pocket.feature = "tslot_pocket"
        /\ stem.w >= 0
        /\ stem.w <= T_SLOT_STEM_LENGTH_MM
        /\ 2 * stem.x >= 2 * pocket.x + pocket.w
        /\ stem.x + stem.w <= OutermostX(p, kerf)

\* C25: after the fastener stage every T-slot stem, on a wall and on the
\* floor, has a length between 0 and T_SLOT_STEM_LENGTH_MM, starts no
\* further in than the centre of its pocket and ends no further out than
\* the outermost edge of its panel.
C25_StemsClamped ==
    FastenersDone =>
        \A k \in JointPieces : \A i \in StemsOf(bld.pieces[k]) :
            StemClamped(bld.pieces[k], i, bld.params.kerf)

\* what holds of the code: the stems of the walls are clamped
WallStemsClamped ==
    FastenersDone =>
        \A k \in 1..4 : \A i \in StemsOf(bld.pieces[k]) :
            StemClamped(bld.pieces[k], i, bld.params.kerf)

\* a floor whose T-slot stem runs out of the panel
FloorStemBeyondEdge ==
    /\ FastenersDone
    /\ \E i \in StemsOf(Floor) :
          /\ Floor.cuts[i].w = T_SLOT_STEM_LENGTH_MM
          /\ Floor.cuts[i].x + Floor.cuts[i].w > Floor.base_w

(***************************************************************************)
(* What the font-size search returns                                       *)
(***************************************************************************)

\* the sizes the search of this call can visit: max, max - 0.5, ... down to
\* the minimum
FontGrid ==
    {font.max_font_size - k * FONT_STEP :
        k \in 0..((font.max_font_size - font.min_font_size) \div FONT_STEP)}

\* those of them at which the text fits the box
FittingSizes ==
    {sz \in FontGrid : TextFits(font.text_len, sz, font.box_width, font.box_height)}

\* the value a returned call has as stated
FontResultAsStated ==
    IF font.text_len = 0 THEN font.ret = font.max_font_size
    ELSE font.min_font_size <= font.max_font_size =>
            /\ font.min_font_size <= font.ret /\ font.ret <= font.max_font_size
            /\ IF FittingSizes = {} THEN font.ret = font.min_font_size
               ELSE font.ret \in FittingSizes /\ \A sz \in FittingSizes : sz <= font.ret

\* C26: every call of the font-size search returns; for empty text it
\* returns max; for non-empty text and min <= max it returns the largest of
\* max, max - 0.5, max - 1.0, ... (not below min) at which the text fits
\* the box, min when none of them fits, and always a value in [min, max].
C26_FirstFittingSize ==
    /\ [](font.pc = "returned" => FontResultAsStated)
    /\ <>(font.pc = "returned")

\* a search that stepped down from a size that did not fit and returned a
\* fitting size above the minimum; one that found none; one with empty text
C26_Witness ==
    /\ font.pc = "returned" /\ font.text_len > 0
    /\ font.min_font_size < font.ret /\ font.ret < font.max_font_size - FONT_STEP
    /\ font.ret \in FittingSizes

C26_WitnessNoFit ==
    /\ font.pc = "returned" /\ font.text_len > 0
    /\ font.min_font_size <= font.max_font_size
    /\ FittingSizes = {} /\ font.ret = font.min_font_size

C26_WitnessEmpty ==
    font.pc = "returned" /\ font.text_len = 0 /\ font.ret = font.max_font_size

(***************************************************************************)
(* The divider slots                                                       *)
(***************************************************************************)

\* the divider-slot stage has run and no later stage has
SlotsJustCut == bld.pc = "fasteners"

\* where and how large a cut rectangle is
RectGeometry(c) == <<c.type, c.x, c.y, c.w, c.h>>

\* the geometry of the cuts of a panel, in order
CutGeometries(p) == [i \in 1..Len(p.cuts) |-> RectGeometry(p.cuts[i])]

\* twice the x-offset of the slot of a position: 2 (t + pos) - slot_w
SlotX2(pos, params) == 2 * (params.t + pos) - divider_slot_draw_w(params.kerf)

\* the slots stated for a wall and for the floor, one per position, in order
StatedWallSlots(params) ==
    [i \in 1..Len(params.divider_positions) |->
        <<"rect", SlotX2(params.divider_positions[i], params) \div 2,
          DIVIDER_SLOT_BOTTOM_MARGIN_MM, divider_slot_draw_w(params.kerf),
          Max(0, params.H_out - DIVIDER_SLOT_TOP_CAP_MM - DIVIDER_SLOT_BOTTOM_MARGIN_MM)>>]

StatedFloorSlots(params) ==
    [i \in 1..Len(params.divider_positions) |->
        <<"rect", SlotX2(params.divider_positions[i], params) \div 2,
          params.t, divider_slot_draw_w(params.kerf), params.W_in>>]

\* the number of divider panels in the list
DividerPanels == Cardinality({k \in 1..Len(bld.pieces) : IsDividerName(bld.pieces[k].name)})

\* the number of divider-slot cuts of panel k
SlotCount(k) ==
    Cardinality({i \in 1..Len(bld.pieces[k].cuts) : IsSlotCut(bld.pieces[k].cuts[i])})

\* C27: the divider-slot stage appends, for each divider position in order,
\* one rectangle to each of wall_front, wall_back and floor, at the x-offset
\* t + pos - slot_w / 2 and of the kerf-adjusted width; on the walls from
\* the bottom margin over max(0, H_out - top cap - bottom margin), on the
\* floor from t over W_in; without positions nothing is appended; no other
\* panel gets a cut, and each of the three panels has as many slots as
\* there are divider panels, also in the list build_pieces returns.
C27_DividerSlots ==
    /\ SlotsJustCut =>
          /\ CutGeometries(bld.pieces[1]) = StatedWallSlots(bld.params)
          /\ CutGeometries(bld.pieces[2]) = StatedWallSlots(bld.params)
          /\ CutGeometries(bld.pieces[5]) = StatedFloorSlots(bld.params)
          /\ \A k \in 1..Len(bld.pieces) : k \notin {1, 2, 5} => bld.pieces[k].cuts = <<>>
          /\ \A k \in {1, 2, 5} : \A i \in 1..Len(bld.pieces[k].cuts) : IsSlotCut(bld.pieces[k].cuts[i])
    /\ (SlotsJustCut \/ Built) =>
          /\ \A k \in {1, 2, 5} : SlotCount(k) = DividerPanels
          /\ \A k \in 1..Len(bld.pieces) : k \notin {1, 2, 5} => SlotCount(k) = 0

\* two dividers: two slots on each of the three panels, the second further
\* right than the first
C27_Witness ==
    /\ SlotsJustCut
    /\ Len(bld.params.divider_positions) = 2
    /\ Len(bld.pieces[1].cuts) = 2 /\ Len(bld.pieces[2].cuts) = 2 /\ Len(bld.pieces[5].cuts) = 2
    /\ bld.pieces[5].cuts[1].x < bld.pieces[5].cuts[2].x
    /\ bld.pieces[5].cuts[1].y = bld.params.t

\* no divider: the stage has appended nothing
C27_WitnessNone ==
    /\ SlotsJustCut
    /\ bld.params.divider_positions = <<>>
    /\ \A k \in 1..Len(bld.pieces) : bld.pieces[k].cuts = <<>>

(***************************************************************************)
(* Mating features                                                         *)
(***************************************************************************)

\* the panel of the name in the list build_pieces works on
Panel(name) == find_piece(bld.pieces, name)

\* the two tab intervals along the bottom edge of a wall, the two tab
\* intervals along its right edge, the two pocket intervals along its left edge
BottomTabs(wall) == DetourIntervals(wall, 2, wall.base_h)
RightTabs(wall) == DetourIntervals(wall, 1, wall.base_w)
LeftPockets(wall) == DetourIntervals(wall, 1, 0)

\* the pocket intervals of the floor along its two edges of length L_out
\* (top and bottom) and along its two edges of length W_out (left and right)
FloorPocketsAlongLength(floor) ==
    <<DetourIntervals(floor, 2, 0), DetourIntervals(floor, 2, floor.base_h)>>
FloorPocketsAlongWidth(floor) ==
    <<DetourIntervals(floor, 1, 0), DetourIntervals(floor, 1, floor.base_w)>>

\* both edges of the floor carry exactly these two intervals
BothEdgesCarry(edges, intervals) ==
    Cardinality(intervals) = 2 /\ edges[1] = intervals /\ edges[2] = intervals

\* C28: the two bottom-tab intervals of wall_front and of wall_back equal
\* the two pocket intervals of the floor's edges of length L_out, those of
\* wall_left and of wall_right the pocket intervals of the floor's edges of
\* length W_out; and for each link of the chain the two tab intervals of the
\* first wall's right edge equal the two pocket intervals of the second
\* wall's left edge.
C28_MatingFeaturesMatch ==
    OutlinesDone =>
        /\ \A name \in {"wall_front", "wall_back"} :
              BothEdgesCarry(FloorPocketsAlongLength(Panel("floor")), BottomTabs(Panel(name)))
        /\ \A name \in {"wall_left", "wall_right"} :
              BothEdgesCarry(FloorPocketsAlongWidth(Panel("floor")), BottomTabs(Panel(name)))
        /\ \A i \in 1..Len(Chain) :
              /\ Cardinality(RightTabs(Panel(Chain[i][1]))) = 2
              /\ RightTabs(Panel(Chain[i][1])) = LeftPockets(Panel(Chain[i][2]))

\* a box whose length, width and height differ, so that the three families
\* of intervals differ from each other
C28_Witness ==
    /\ OutlinesDone
    /\ bld.params.L_out # bld.params.W_out /\ bld.params.W_out # bld.params.H_out
    /\ bld.params.L_out # bld.params.H_out
    /\ BottomTabs(Panel("wall_front")) # BottomTabs(Panel("wall_left"))
    /\ RightTabs(Panel("wall_front")) # BottomTabs(Panel("wall_left"))
    /\ BottomTabs(Panel("wall_front")) = DetourIntervals(Panel("floor"), 2, 0)

(***************************************************************************)
(* The geometry and the bounding box of a panel                            *)
(***************************************************************************)

\* the rectangle lies in [0, w] x [0, h] of the panel
InBoundingBox(p, r) ==
    /\ 0 <= r.x /\ r.x + r.w <= p.w
    /\ 0 <= r.y /\ r.y + r.h <= p.h

\* the vertices of the outline: of a path, or the corners of a rectangle
OutlineInBoundingBox(p) ==
    IF p.outline.type = "path"
    THEN \A q \in {PathVertices(p.outline.d)[i] : i \in 1..Len(PathVertices(p.outline.d))} :
            0 <= q[1] /\ q[1] <= p.w /\ 0 <= q[2] /\ q[2] <= p.h
    ELSE InBoundingBox(p, Rect(p.outline.x, p.outline.y, p.outline.w, p.outline.h))

CutsInBoundingBox(p) == \A i \in 1..Len(p.cuts) : InBoundingBox(p, CutBox(p.cuts[i]))

\* C29: every outline vertex and every cut of every panel build_pieces
\* returns lies in [0, w] x [0, h] of its panel.
C29_GeometryInBoundingBox ==
    Built =>
        \A k \in 1..Len(bld.pieces) :
            OutlineInBoundingBox(bld.pieces[k]) /\ CutsInBoundingBox(bld.pieces[k])

\* the box is at least as long as wide and every edge has room for its two
\* corner features
RegularBox ==
    /\ bld.params.L_out >= bld.params.W_out
    /\ FeaturesFit(bld.params.L_out, bld.params.kerf)
    /\ FeaturesFit(bld.params.W_out, bld.params.kerf)
    /\ FeaturesFit(bld.params.H_out, bld.params.kerf)

\* what holds of the code: the geometry of a regular box is inside
RegularGeometryInBoundingBox ==
    (Built /\ RegularBox) =>
        \A k \in 1..Len(bld.pieces) :
            OutlineInBoundingBox(bld.pieces[k]) /\ CutsInBoundingBox(bld.pieces[k])

\* a regular box with two dividers, all inside
RegularBoxBuilt ==
    /\ Built /\ RegularBox /\ bld.params.num_dividers = 2
    /\ \A k \in 1..Len(bld.pieces) : CutsInBoundingBox(bld.pieces[k])

\* a box shorter than wide whose divider slot lies outside the front wall
SlotOutsideFrontWall ==
    /\ Built
    /\ \E i \in 1..Len(bld.pieces[1].cuts) :
          /\ IsSlotCut(bld.pieces[1].cuts[i])
          /\ ~ InBoundingBox(bld.pieces[1], CutBox(bld.pieces[1].cuts[i]))

(***************************************************************************)
(* What the engraving stage changes                                        *)
(***************************************************************************)

\* a panel without its engraves
WithoutEngraves(p) ==
    [name |-> p.name, w |-> p.w, h |-> p.h, base_w |-> p.base_w, base_h |-> p.base_h,
     outline |-> p.outline, cuts |-> p.cuts]

\* the step of build_pieces that calls _add_standard_engraving
EngravingStep == bld.pc = "engraving" /\ bld'.pc = "built"

\* nothing but the engrave lists of the four walls differs
OnlyWallEngravesChange ==
    /\ Len(bld'.pieces) = Len(bld.pieces)
    /\ \A k \in 1..Len(bld.pieces) :
          /\ WithoutEngraves(bld'.pieces[k]) = WithoutEngraves(bld.pieces[k])
          /\ k > 4 => bld'.pieces[k].engraves = bld.pieces[k].engraves

\* the parameters of the same box with all walls in mode none
Undecorated(params) ==
    [params EXCEPT !.wall_mode = [wall \in WALLS |-> "none"],
                   !.wall_text = [wall \in WALLS |-> ""]]

\* shelf_pack on the sheet of the program
PackOnSheet(pieces) == shelf_pack(PackView(pieces), SHEET_W_MM, SHEET_H_MM, PART_GAP_MM)

\* both calls failed, or both returned the same placements
SamePacking(a, b) ==
    /\ (a # None) = (b # None)
    /\ (a # None /\ b # None) => a = b

\* C30: the engraving stage leaves name, w, h, base_w, base_h, outline and
\* cuts of every panel and the engraves of floor and dividers as they are;
\* and the panels build_pieces returns pack exactly as those of the same
\* box with all walls in mode none: the same placements, or None for both.
C30_EngravingKeepsPacking ==
    /\ [][EngravingStep => OnlyWallEngravesChange]_vars
    /\ [](Built => SamePacking(PackOnSheet(bld.pieces),
                                PackOnSheet(build_pieces(Undecorated(bld.params)))))

\* a decorated box with engraves on three walls that fits the sheet
C30_Witness ==
    /\ Built
    /\ bld.params.wall_mode["front"] = "fractal" /\ bld.params.wall_mode["back"] = "text"
    /\ Len(bld.pieces[1].engraves) = 81 /\ Len(bld.pieces[2].engraves) = 1
    /\ Len(bld.pieces[4].engraves) = 1
    /\ PackOnSheet(bld.pieces) # None
    /\ build_pieces(Undecorated(bld.params)) # bld.pieces

\* a decorated box that does not fit the sheet, as the undecorated one
C30_WitnessNoFit ==
    /\ Built
    /\ bld.params.wall_mode["front"] = "fractal"
    /\ bld.pieces[1].engraves # <<>>
    /\ PackOnSheet(bld.pieces) = None

\* in main the fit check has decided: generate_svg does not raise after it
MainGenerateNeverRaises ==
    (mn.caller = "main" /\ mn.pc = "generated") => (~ mn.raised /\ mn.svg # <<>>)

====
